---- MODULE Spec2Model ----
(***************************************************************************)
(* A state-machine model of the MiroFlow orchestrator                      *)
(* (src/src/core/orchestrator.py) together with the LLM-client history     *)
(* helpers (src/src/llm/providers/opencode_client.py) and the <use_mcp_tool>*)
(* parser (src/libs/miroflow/src/miroflow/utils/parsing_utils.py).         *)
(*                                                                         *)
(* One run of Orchestrator.run_main_agent is modelled.  The main agent and *)
(* the sub-agent it may call are two frames, "main" and "sub"; the main    *)
(* frame is suspended (pc = "in_sub") while run_sub_agent executes.        *)
(* The LLM, the tools and the sub-agent set-up are the environment: their  *)
(* outcomes are chosen nondeterministically in the actions.                *)
(***************************************************************************)
EXTENDS Integers, Sequences, FiniteSets, TLC

(***************************************************************************)
(* Bounds of the exploration.                                              *)
(***************************************************************************)
MaxBlocks == 2         \* <use_mcp_tool> blocks the LLM emits in a full run
MaxFaults == 1         \* failures the environment injects in a full run
MaxSubRuns == 1        \* sub-agent sessions the LLM asks for in a full run
SummaryFaults == 6     \* LLM failures injected into the summaries of a run
SummaryBlocks == 2     \* blocks the LLM emits in a run that stresses the summary

\* the configurations explored
MainMaxTurns == {-1, 0, 1}      \* main_agent.max_turns
SubMaxTurns == {0, 1}           \* sub_agents[name].max_turns
MaxToolCallsPerTurn == {1, 2}   \* max_tool_calls_per_turn

MaxTextLen == 4        \* characters of a text streamed through the interceptor

(***************************************************************************)
(* Program constants.                                                      *)
(***************************************************************************)
NetworkRetries == 5            \* for network_retry_count in range(5)
MinHistoryLen == 2             \* if len(message_history) <= 2: break
SysMaxSize == 2147483647       \* sys.maxsize, used for a negative max_turns

ErrorLiteral == "[ERROR] Unable to generate final summary due to context limit or network issues. You should try again."

Frames == {"main", "sub"}

(***************************************************************************)
(* Server names the LLM can put in a tool call.  "agent-unknown" has the   *)
(* agent- prefix but is not a key of cfg.sub_agents.                       *)
(***************************************************************************)
ToolServer == "tool-python"
SubAgentName == "agent-browsing"
UnknownAgentName == "agent-unknown"
ServerNames == {ToolServer, SubAgentName, UnknownAgentName}

\* str.startswith("agent-")
StartsWithAgent(server_name) == server_name \in {SubAgentName, UnknownAgentName}

\* sub_agent_name in self.cfg.sub_agents
ConfiguredSubAgent(server_name) == server_name = SubAgentName

(***************************************************************************)
(* An LLM response text is a sequence of <use_mcp_tool> blocks.  A block   *)
(* is well formed with parseable arguments ("ok"), well formed with        *)
(* arguments that stay unparseable after repair ("badjson"), lacks its     *)
(* </use_mcp_tool> only ("unclosed"), or is cut off inside its tool_name,  *)
(* after an unclosed server_name ("truncated").  A match of an             *)
(* incomplete_patterns regex runs to the next closing tag of its kind, so  *)
(* a block is found unterminated only when it is the last of the response. *)
(* arg identifies the block's argument text.                               *)
(***************************************************************************)
Shapes == {"ok", "badjson", "unclosed", "truncated"}

Unterminated == {"unclosed", "truncated"}

Block(server, shape, arg) == [server_name |-> server, shape |-> shape, arg |-> arg]

BlockTypes(servers) ==
    {[server_name |-> s, shape |-> sh] : s \in servers, sh \in {"ok"}}
    \cup {[server_name |-> ToolServer, shape |-> sh] : sh \in Shapes \ {"ok"}}

\* all responses with at most max blocks over the given servers
Responses(servers, max) ==
    UNION {{[i \in 1..n |-> Block(f[i].server_name, f[i].shape, i)] :
              f \in {g \in [1..n -> BlockTypes(servers)] :
                        \A i \in 1..(n - 1) : g[i].shape \notin Unterminated}} :
           n \in 0..max}

\* the tool-call dict the parser appends to tool_calls for a matched block:
\* arguments that stay unparseable become {"error": ..., "raw": ...}
ParsedCall(b) ==
    [server_name |-> b.server_name,
     tool_name |-> "run",
     arguments |-> IF b.shape = "ok"
                   THEN [error |-> "", raw |-> b.arg]
                   ELSE [error |-> "Failed to parse arguments", raw |-> b.arg],
     id |-> "None"]

\* the dict the parser appends to bad_tool_calls for an unclosed tag
BadCall(tag, b) == [error |-> "Unclosed " \o tag \o " tag", content |-> b.arg]

\* the entries of an unterminated block, in the order of incomplete_patterns
BadCalls(b) ==
    IF b.shape = "unclosed" THEN <<BadCall("use_mcp_tool", b)>>
    ELSE <<BadCall("use_mcp_tool", b), BadCall("server_name", b),
           BadCall("tool_name", b)>>

\* a parser that drops a block whose arguments stay unparseable
RECURSIVE MatchedParseableCalls(_)
MatchedParseableCalls(blocks) ==
    IF blocks = <<>> THEN <<>>
    ELSE IF Head(blocks).shape = "ok"
         THEN <<ParsedCall(Head(blocks))>> \o MatchedParseableCalls(Tail(blocks))
         ELSE MatchedParseableCalls(Tail(blocks))

\* the blocks matched by tool_call_patterns, each turned into a call
RECURSIVE MatchedCalls(_)
MatchedCalls(blocks) ==
    IF blocks = <<>> THEN <<>>
    ELSE IF Head(blocks).shape \notin Unterminated
         THEN <<ParsedCall(Head(blocks))>> \o MatchedCalls(Tail(blocks))
         ELSE MatchedCalls(Tail(blocks))

\* the blocks matched by incomplete_patterns that lack a closing tag
RECURSIVE UnclosedCalls(_)
UnclosedCalls(blocks) ==
    IF blocks = <<>> THEN <<>>
    ELSE IF Head(blocks).shape \in Unterminated
         THEN BadCalls(Head(blocks)) \o UnclosedCalls(Tail(blocks))
         ELSE UnclosedCalls(Tail(blocks))

\* parse_llm_response_for_tool_calls: (tool_calls, bad_tool_calls)
parse_llm_response_for_tool_calls(blocks) ==
    [valid |-> MatchedCalls(blocks), bad |-> UnclosedCalls(blocks)]

NoToolCalls == [valid |-> <<>>, bad |-> <<>>]

(***************************************************************************)
(* Messages of a history.  body holds what the message carries: the blocks *)
(* of an assistant response, the merged parts of a tool-result message, or *)
(* the parts pulled into a summary prompt.                                 *)
(***************************************************************************)
UserTask == [role |-> "user", kind |-> "task", body |-> <<>>, task_failed |-> FALSE]

AssistantMsg(blocks, kind) ==
    [role |-> "assistant", kind |-> kind, body |-> blocks, task_failed |-> FALSE]

ToolResultsMsg(parts) ==
    [role |-> "user", kind |-> "tool_results", body |-> parts, task_failed |-> FALSE]

SummaryPromptMsg(pulled, failed) ==
    [role |-> "user", kind |-> "summary", body |-> pulled, task_failed |-> failed]

Last(s) == s[Len(s)]
Pop(s) == SubSeq(s, 1, Len(s) - 1)

(***************************************************************************)
(* Tool results and their text for the LLM.                                *)
(***************************************************************************)
\* a tool-result dict: key is the one of "result" / "error" that is set
ToolResult(server_name, tool_name, key, text, arg) ==
    [server_name |-> server_name, tool_name |-> tool_name, key |-> key,
     text |-> text, arg |-> arg]

\* a formatter that reports the summary-failure text as an error
format_tool_result_flagging_summary_failure(r) ==
    [type |-> "text",
     text |-> [failed |-> (r.key = "error" \/ r.text = ErrorLiteral),
               server_name |-> r.server_name,
               tool_name |-> r.tool_name, content |-> r.text, arg |-> r.arg]]

\* OutputFormatter.format_tool_result_for_user
format_tool_result_for_user(r) ==
    [type |-> "text",
     text |-> [failed |-> (r.key = "error"), server_name |-> r.server_name,
               tool_name |-> r.tool_name, content |-> r.text, arg |-> r.arg]]

\* one part of the merged text of update_message_history
Part(tag, n, text) == [tag |-> tag, n |-> n, text |-> text]

(***************************************************************************)
(* Events put on stream_queue.  The end-of-stream sentinel is the item     *)
(* with event = "None".                                                    *)
(***************************************************************************)
Ev(event, name, id, info) == [event |-> event, name |-> name, id |-> id, info |-> info]

Sentinel == Ev("None", "", 0, "")
WorkflowId == 0

(***************************************************************************)
(* TextInterceptor (stream_parsing_utils.py).  A text is a sequence of      *)
(* characters.  The orchestrator builds its interceptor with the one token  *)
(* "<use_mcp_tool>"; the token is written here with three characters, the   *)
(* first of which, as in the real token, occurs nowhere else in it.         *)
(***************************************************************************)
Alphabet == {"<", "u", ">"}
Token == <<"<", "u", ">">>

\* TextInterceptor(["<use_mcp_tool>"]).unbreakable_strings
unbreakable_strings == <<Token>>

\* all texts of at most max characters
Texts(max) == UNION {[1..n -> Alphabet] : n \in 0..max}

\* s[from:] of Python, from counted from 0
Drop(s, from) == SubSeq(s, from + 1, Len(s))

\* s[:to] of Python
Take(s, to) == SubSeq(s, 1, to)

\* u.startswith(s)
StartsWith(u, s) == Len(s) <= Len(u) /\ Take(u, Len(s)) = s

\* the positions, counted from 0, at which u occurs in s
Occurrences(u, s) ==
    {k \in 0..(Len(s) - Len(u)) : SubSeq(s, k + 1, k + Len(u)) = u}

\* u in s
Contains(u, s) == Occurrences(u, s) # {}

\* s.find(u) for a u that occurs in s
Find(u, s) == CHOOSE k \in Occurrences(u, s) : \A j \in Occurrences(u, s) : k <= j

\* TextInterceptor.is_unbreakable_string
is_unbreakable_string(text) ==
    \E n \in DOMAIN unbreakable_strings : Contains(unbreakable_strings[n], text)

\* unbreakable.startswith(s) and len(s) < len(unbreakable), for some unbreakable
IsDangerous(s) ==
    \E n \in DOMAIN unbreakable_strings :
        StartsWith(unbreakable_strings[n], s) /\ Len(s) < Len(unbreakable_strings[n])

\* the first unbreakable string of the list that occurs in s
FirstContained(s) ==
    unbreakable_strings[CHOOSE n \in DOMAIN unbreakable_strings :
        /\ Contains(unbreakable_strings[n], s)
        /\ \A m \in DOMAIN unbreakable_strings :
              Contains(unbreakable_strings[m], s) => n <= m]

\* what process returns: a text, or None
Returned(text) == [none |-> FALSE, text |-> text]
ReturnedNone == [none |-> TRUE, text |-> <<>>]

\* a loop that finds no safe output position
SafeOutputEndNowhere(buf, i, safe_output_end) == 0

\* the loop "for i in range(1, len(self.buffer) + 1)" from i on, with
\* safe_output_end as it stands (stream_parsing_utils.py:79-93)
RECURSIVE SafeOutputEnd(_, _, _)
SafeOutputEnd(buf, i, safe_output_end) ==
    IF i > Len(buf) THEN safe_output_end
    ELSE IF IsDangerous(SubSeq(buf, safe_output_end + 1, i))
         THEN SafeOutputEnd(buf, i + 1, safe_output_end)
         ELSE SafeOutputEnd(buf, i + 1, i)

\* TextInterceptor.process: the buffer it leaves and what it returns
process(old_buffer, text, is_last) ==
    LET buf == old_buffer \o text
    IN  IF is_last
        THEN IF is_unbreakable_string(buf)
             THEN IF Find(FirstContained(buf), buf) > 0
                  THEN [buffer |-> <<>>,
                        result |-> Returned(Take(buf, Find(FirstContained(buf), buf)))]
                  ELSE [buffer |-> <<>>, result |-> ReturnedNone]
             ELSE [buffer |-> <<>>, result |-> Returned(buf)]
        ELSE IF IsDangerous(buf)
        THEN [buffer |-> buf, result |-> ReturnedNone]
        ELSE IF is_unbreakable_string(buf)
        THEN IF Find(FirstContained(buf), buf) > 0
             THEN [buffer |-> Drop(buf, Find(FirstContained(buf), buf)),
                   result |-> Returned(Take(buf, Find(FirstContained(buf), buf)))]
             ELSE [buffer |-> buf, result |-> ReturnedNone]
        ELSE LET safe_output_end == SafeOutputEnd(buf, 1, 0)
             IN  IF safe_output_end = 0
                 THEN [buffer |-> buf, result |-> ReturnedNone]
                 ELSE [buffer |-> Drop(buf, safe_output_end),
                       result |-> IF Take(buf, safe_output_end) # <<>>
                                  THEN Returned(Take(buf, safe_output_end))
                                  ELSE ReturnedNone]

VARIABLES
    cfg,                  \* the configuration read by the run
    pc,                   \* per frame: where the coroutine is
    turn_count,           \* per frame: turn_count
    task_failed,          \* per frame: task_failed
    message_history,      \* per frame: message_history
    tool_calls,           \* per frame: tool_calls of the current turn
    tool_calls_exceeded,  \* per frame: tool_calls_exceeded of the current turn
    call_idx,             \* per frame: position in tool_calls[0][:max_tool_calls]
    results,              \* per frame: all_tool_results_content_with_id
    network_retry_count,  \* per frame: network_retry_count of the summary
    final_answer_text,    \* per frame: what the summary returned
    events,               \* the messages _stream_update and the sentinel put, in order
    uuid,                 \* number of uuid4() values drawn so far
    current_agent_id,     \* self.current_agent_id
    sub_agent_id,         \* sub_agent_id of run_sub_agent
    registry,             \* the execute_tool_call calls the tool managers received
    llm_calls,            \* per frame: turn and summary LLM calls of the session
    env,                  \* what the environment may still do in this run
    entry,                \* per frame: the history at entry to the summary
    ret,                  \* what run_main_agent returned or raised
    buffer,               \* TextInterceptor.buffer
    whole,                \* the text of the stream the interceptor is given
    fed,                  \* how many characters of it have been passed to process
    forwarded,            \* the concatenation of the texts process has returned
    finished,             \* process has been called with is_last = True
    stream_queue,         \* the items on stream_queue, oldest first
    put_count,            \* how many of events have been put on stream_queue
    received,             \* the items the observer has taken, in order
    tm_call,              \* the arguments of the execute_tool_call call
    tm_pc,                \* where that call is
    tm_wire,              \* what the tool manager has sent out, in order
    tm_ret,               \* what execute_tool_call returned or raised
    fmt_in,               \* final_answer_text and benchmark name at the end of the run
    fmt_out,              \* the pair run_main_agent returns for them
    llm_in,               \* the arguments of one _handle_llm_call_with_logging call
    llm_out,              \* what that call returned or raised, and what it emitted
    sub_agent_llm_client, \* the client object behind self.sub_agent_llm_client
    streams,              \* how many LLM calls have streamed through the interceptor
    status,               \* ToolSandboxWithStdio.status
    lock,                 \* the coroutine that holds ToolSandboxWithStdio.lock, or Free
    stack_by_server,      \* the items of stack_by_server, in insertion order
    session_by_server,    \* the keys of session_by_server
    sb_pc,                \* per caller of the sandbox: where its call is
    sb_i,                 \* the position of the for loop of the lock holder
    opened,               \* per server: how many sessions have been opened
    closed,               \* per server: how many sessions have been closed
    sb_env,               \* what is left of the calls and failures of the sandbox
    task_progress,        \* per task id: _task_progress[task_id]["status"], or Absent
    task_results,         \* per task id: _task_results[task_id]["status"], or Absent
    running_tasks,        \* the keys of _running_tasks
    bg_pc,                \* per task id: where run_in_background is
    cancel_asked,         \* the task ids whose asyncio task was asked to cancel
    cancel_replies,       \* the task ids for which cancel_task returned "cancelled"
    polled                \* per task id: the status get_task_status returned last

vars == <<cfg, pc, turn_count, task_failed, message_history, tool_calls,
          tool_calls_exceeded, call_idx, results, network_retry_count,
          final_answer_text, events, uuid, current_agent_id, sub_agent_id,
          registry, llm_calls, env, entry, ret,
          buffer, whole, fed, forwarded, finished,
          stream_queue, put_count, received,
          tm_call, tm_pc, tm_wire, tm_ret, fmt_in, fmt_out,
          llm_in, llm_out, sub_agent_llm_client, streams,
          status, lock, stack_by_server, session_by_server, sb_pc, sb_i,
          opened, closed, sb_env,
          task_progress, task_results, running_tasks, bg_pc, cancel_asked,
          cancel_replies, polled>>

\* the variables of the run of the orchestrator
runVars == <<cfg, pc, turn_count, task_failed, message_history, tool_calls,
             tool_calls_exceeded, call_idx, results, network_retry_count,
             final_answer_text, events, uuid, current_agent_id, sub_agent_id,
             registry, llm_calls, env, entry, ret>>
\* the variables of the interceptor and its stream
interceptVars == <<buffer, whole, fed, forwarded, finished>>
\* the variables of the channel to the observer
channelVars == <<stream_queue, put_count, received>>
\* the variables of one execute_tool_call call
toolVars == <<tm_call, tm_pc, tm_wire, tm_ret>>
\* the variables of the formatting of the final output
formatVars == <<fmt_in, fmt_out>>
\* the variables of one LLM call taken alone
llmVars == <<llm_in, llm_out>>
\* the variables of the parts taken alone that the run does not touch
\* the variables of a ToolSandboxWithStdio and its callers
sandboxVars == <<status, lock, stack_by_server, session_by_server, sb_pc, sb_i,
                 opened, closed, sb_env>>
\* the variables of the parts that stand apart from the orchestrator
\* the variables of the MCP server and its background tasks
serverVars == <<task_progress, task_results, running_tasks, bg_pc, cancel_asked,
                cancel_replies, polled>>
apartVars == <<sandboxVars, serverVars>>
otherVars == <<sub_agent_llm_client, streams, apartVars>>
sideVars == <<llmVars, otherVars>>

\* the variables of one frame's turn
turnVars == <<tool_calls, tool_calls_exceeded, call_idx, results>>
\* the variables of the summary
sumVars == <<network_retry_count, final_answer_text, entry>>
\* the variables of the environment's log
logVars == <<registry>>
\* the budgets of the environment
envVars == <<env>>

\* the budgets of the environment: failures of LLM calls and tool calls,
\* failures of summary LLM calls, blocks emitted, sub-agent sessions asked for;
\* chunks is the number of pieces of streamed text the callbacks still forward
Budget(faults, summary_faults, blocks, sub_runs) ==
    [faults |-> faults, summary_faults |-> summary_faults, blocks |-> blocks,
     sub_runs |-> sub_runs, chunks |-> 0]

\* budget b with an LLM that streams
Streaming(b, chunks) == [b EXCEPT !.chunks = chunks]

NoReturn == [kind |-> "none", summary |-> "", boxed |-> ""]

Configs ==
    [main_max_turns : MainMaxTurns,
     sub_max_turns : SubMaxTurns,
     max_tool_calls_per_turn : MaxToolCallsPerTurn]

\* the interceptor as __init__ leaves it, and the text it will be given
InitInterceptor(text) ==
    /\ buffer = <<>>
    /\ whole = text
    /\ fed = 0
    /\ forwarded = <<>>
    /\ finished = FALSE

\* an empty channel with an observer that has taken nothing yet
InitChannel ==
    /\ stream_queue = <<>>
    /\ put_count = 0
    /\ received = <<>>

\* a tool manager that is not being called
NoCall == [server_name |-> "", tool_name |-> "", arguments |-> <<>>]
InitToolManager ==
    /\ tm_call = NoCall
    /\ tm_pc = "idle"
    /\ tm_wire = <<>>
    /\ tm_ret = [kind |-> "none"]

\* no LLM call is being looked at alone
InitLlm ==
    /\ llm_in = [outcome |-> "", blocks |-> <<>>, history |-> <<>>]
    /\ llm_out = [kind |-> "none"]

\* self.llm_client, and a client of its own for the sub-agents
LlmClient == "llm_client"
OwnSubClient == "sub_agent_llm_client"

\* __init__ without a sub_agent_llm_client: sub_agent_llm_client or llm_client
InitClients == sub_agent_llm_client = LlmClient

\* the interceptor is given the stream of its first LLM call
InitStreams == streams = 1

\* ToolSandboxWithStdio(server_configs) after __init__ (manager_v2.py:28-34),
\* with callers that may make the given numbers of calls and of failing awaits
Callers == {"t1", "t2"}
Free == "free"
server_configs == <<"s1", "s2">>
SandboxServers == {server_configs[n] : n \in DOMAIN server_configs}

InitSandbox(calls, failures) ==
    /\ status = "pending"
    /\ lock = Free
    /\ stack_by_server = <<>>
    /\ session_by_server = {}
    /\ sb_pc = [c \in Callers |-> "idle"]
    /\ sb_i = 1
    /\ opened = [n \in SandboxServers |-> 0]
    /\ closed = [n \in SandboxServers |-> 0]
    /\ sb_env = [calls |-> calls, failures |-> failures]

\* the MCP server after import: the three module dicts are empty
\* (server.py:71, 103-104) and no background task exists
TaskIds == {"task_a", "task_b"}
Absent == "absent"

InitServer ==
    /\ task_progress = [t \in TaskIds |-> Absent]
    /\ task_results = [t \in TaskIds |-> Absent]
    /\ running_tasks = {}
    /\ bg_pc = [t \in TaskIds |-> "none"]
    /\ cancel_asked = {}
    /\ cancel_replies = {}
    /\ polled = [t \in TaskIds |-> "none"]

\* the parts that stand apart, not in use
InitApart == InitSandbox(0, 0) /\ InitServer

InitOther == InitClients /\ InitStreams /\ InitApart

InitSide == InitLlm /\ InitOther

\* no final output is being formatted
InitFormatter ==
    /\ fmt_in = [text |-> <<>>, benchmark |-> ""]
    /\ fmt_out = [kind |-> "none"]

InitRun(c, b) ==
    /\ cfg = c
    /\ pc = [f \in Frames |-> IF f = "main" THEN "start" ELSE "idle"]
    /\ turn_count = [f \in Frames |-> 0]
    /\ task_failed = [f \in Frames |-> FALSE]
    /\ message_history = [f \in Frames |-> <<>>]
    /\ tool_calls = [f \in Frames |-> NoToolCalls]
    /\ tool_calls_exceeded = [f \in Frames |-> FALSE]
    /\ call_idx = [f \in Frames |-> 1]
    /\ results = [f \in Frames |-> <<>>]
    /\ network_retry_count = [f \in Frames |-> 0]
    /\ final_answer_text = [f \in Frames |-> ""]
    /\ events = <<>>
    /\ uuid = 0
    /\ current_agent_id = 0
    /\ sub_agent_id = 0
    /\ registry = <<>>
    /\ llm_calls = [f \in Frames |-> [turn |-> 0, summary |-> 0]]
    /\ env = b
    /\ entry = [f \in Frames |-> <<>>]
    /\ ret = NoReturn

InitFrame(c, b) ==
    InitRun(c, b) /\ InitInterceptor(<<>>) /\ InitChannel /\ InitToolManager /\ InitFormatter /\ InitSide

Init == \E c \in Configs : InitFrame(c, Budget(MaxFaults, 0, MaxBlocks, MaxSubRuns))

(***************************************************************************)
(* run_main_agent, up to the main loop.                                    *)
(***************************************************************************)
\* _stream_start_workflow (orchestrator.py:910)
StartWorkflow ==
    /\ pc["main"] = "start"
    /\ events' = Append(events, Ev("start_of_workflow", "", WorkflowId, ""))
    /\ pc' = [pc EXCEPT !["main"] = "input"]
    /\ UNCHANGED <<cfg, interceptVars, channelVars, toolVars, formatVars, sideVars, turn_count, task_failed, message_history, turnVars,
                   sumVars, uuid, current_agent_id, sub_agent_id, logVars,
                   llm_calls, envVars, ret>>

\* process_input .. message_history.append (orchestrator.py:919-985);
\* process_input raises FileNotFoundError for a task file that does not exist
ProcessInput(file_found) ==
    /\ pc["main"] = "input"
    /\ IF file_found
       THEN /\ message_history' = [message_history EXCEPT !["main"] = <<UserTask>>]
            /\ pc' = [pc EXCEPT !["main"] = "prompt"]
            /\ ret' = ret
       ELSE /\ message_history' = message_history
            /\ pc' = [pc EXCEPT !["main"] = "raised"]
            /\ ret' = [kind |-> "raised", summary |-> "", boxed |-> ""]
    /\ UNCHANGED <<cfg, interceptVars, channelVars, toolVars, formatVars, sideVars, turn_count, task_failed, turnVars, sumVars, events, uuid,
                   current_agent_id, sub_agent_id, logVars, llm_calls, envVars>>

\* tool definitions, _load_agent_prompt_class, start of the main agent
\* (orchestrator.py:987-1020); _load_agent_prompt_class raises ValueError or
\* ImportError for a prompt class that cannot be loaded
LoadPrompt(class_found) ==
    /\ pc["main"] = "prompt"
    /\ IF class_found
       THEN /\ events' = events \o <<Ev("start_of_agent", "main", uuid + 1, ""),
                                     Ev("start_of_llm", "main", 0, "")>>
            /\ uuid' = uuid + 1
            /\ current_agent_id' = uuid + 1
            /\ turn_count' = [turn_count EXCEPT !["main"] = 0]
            /\ task_failed' = [task_failed EXCEPT !["main"] = FALSE]
            /\ pc' = [pc EXCEPT !["main"] = "loop"]
            /\ ret' = ret
       ELSE /\ UNCHANGED <<events, uuid, current_agent_id, turn_count, task_failed>>
            /\ pc' = [pc EXCEPT !["main"] = "raised"]
            /\ ret' = [kind |-> "raised", summary |-> "", boxed |-> ""]
    /\ UNCHANGED <<cfg, interceptVars, channelVars, toolVars, formatVars, sideVars, message_history, turnVars, sumVars, sub_agent_id, logVars,
                   llm_calls, envVars>>

(***************************************************************************)
(* LLMCallRunner: _handle_llm_call_with_logging.                           *)
(***************************************************************************)
LLMFailures == {"empty", "noresp", "timeout", "context_limit", "error"}
LLMOutcomes == {"ok"} \cup LLMFailures

\* a response processing that hands the text back without recording it
process_llm_response_unrecorded(history, outcome, blocks) ==
    [history |-> history,
     text |-> IF outcome = "ok" THEN "text" ELSE "",
     should_break |-> FALSE]

\* OpenCodeClient.process_llm_response: the assistant message is appended
\* whatever its text is; should_break is False
process_llm_response(history, outcome, blocks) ==
    [history |-> Append(history,
                        AssistantMsg(blocks, IF outcome = "ok" THEN "text" ELSE "empty")),
     text |-> IF outcome = "ok" THEN "text" ELSE "",
     should_break |-> FALSE]

\* the tool_call event of _stream_tool_call("show_error", ..., True)
ShowError(id) == Ev("tool_call", "show_error", id, "delta_input")

\* an LLM call that reports nothing to the stream when the call times out
handle_llm_call_lost_context_limit(history, outcome, blocks, id) ==
    IF outcome \in {"ok", "empty"}
    THEN LET p == process_llm_response(history, outcome, blocks)
         IN  IF p.text # ""
             THEN [text |-> p.text, should_break |-> p.should_break,
                   info |-> "calls", calls |-> parse_llm_response_for_tool_calls(blocks),
                   history |-> p.history, emitted |-> <<>>]
             ELSE [text |-> "", should_break |-> TRUE, info |-> "None",
                   calls |-> NoToolCalls, history |-> p.history, emitted |-> <<>>]
    ELSE IF outcome \in {"timeout", "error"}
    THEN [text |-> "", should_break |-> TRUE, info |-> "None",
          calls |-> NoToolCalls, history |-> history, emitted |-> <<ShowError(id)>>]
    ELSE [text |-> "", should_break |-> TRUE, info |-> "None",
          calls |-> NoToolCalls, history |-> history, emitted |-> <<>>]

handle_llm_call_quiet_timeout(history, outcome, blocks, id) ==
    IF outcome \in {"ok", "empty"}
    THEN LET p == process_llm_response(history, outcome, blocks)
         IN  IF p.text # ""
             THEN [text |-> p.text, should_break |-> p.should_break,
                   info |-> "calls", calls |-> parse_llm_response_for_tool_calls(blocks),
                   history |-> p.history, emitted |-> <<>>]
             ELSE [text |-> "", should_break |-> TRUE, info |-> "None",
                   calls |-> NoToolCalls, history |-> p.history, emitted |-> <<>>]
    ELSE IF outcome = "context_limit"
    THEN [text |-> "", should_break |-> TRUE, info |-> "context_limit",
          calls |-> NoToolCalls, history |-> history, emitted |-> <<>>]
    ELSE IF outcome = "error"
    THEN [text |-> "", should_break |-> TRUE, info |-> "None",
          calls |-> NoToolCalls, history |-> history, emitted |-> <<ShowError(id)>>]
    ELSE [text |-> "", should_break |-> TRUE, info |-> "None",
          calls |-> NoToolCalls, history |-> history, emitted |-> <<>>]

\* _handle_llm_call_with_logging (orchestrator.py:374-464): the returned
\* (response_text, should_break, tool_calls_info), the history after the call
\* and the events emitted; text "" stands for None
handle_llm_call(history, outcome, blocks, id) ==
    IF outcome \in {"ok", "empty"}
    THEN LET p == process_llm_response(history, outcome, blocks)
         IN  IF p.text # ""
             THEN [text |-> p.text, should_break |-> p.should_break,
                   info |-> "calls", calls |-> parse_llm_response_for_tool_calls(blocks),
                   history |-> p.history, emitted |-> <<>>]
             ELSE [text |-> "", should_break |-> TRUE, info |-> "None",
                   calls |-> NoToolCalls, history |-> p.history, emitted |-> <<>>]
    ELSE IF outcome = "context_limit"
    THEN [text |-> "", should_break |-> TRUE, info |-> "context_limit",
          calls |-> NoToolCalls, history |-> history, emitted |-> <<>>]
    ELSE IF outcome \in {"timeout", "error"}
    THEN [text |-> "", should_break |-> TRUE, info |-> "None",
          calls |-> NoToolCalls, history |-> history, emitted |-> <<ShowError(id)>>]
    ELSE [text |-> "", should_break |-> TRUE, info |-> "None",
          calls |-> NoToolCalls, history |-> history, emitted |-> <<>>]

(***************************************************************************)
(* The environment: what the LLM may answer.                               *)
(***************************************************************************)
\* number of blocks of a response that ask for the configured sub-agent
RECURSIVE SubAgentBlocks(_)
SubAgentBlocks(blocks) ==
    IF blocks = <<>> THEN 0
    ELSE (IF Head(blocks).server_name = SubAgentName THEN 1 ELSE 0)
         + SubAgentBlocks(Tail(blocks))

\* the outcomes a turn LLM call can have now: failures while the budget lasts
Outcomes == IF env.faults > 0 THEN LLMOutcomes ELSE {"ok"}

\* the outcomes a summary LLM call can have now
SummaryOutcomes ==
    IF env.faults > 0 \/ env.summary_faults > 0 THEN LLMOutcomes ELSE {"ok"}

\* the responses of a turn of frame f: at most MaxBlocks blocks in a run,
\* of which at most MaxSubRuns ask for the configured sub-agent
TurnResponses(f) ==
    IF f = "main"
    THEN {r \in Responses(ServerNames, env.blocks) : SubAgentBlocks(r) <= env.sub_runs}
    ELSE Responses({ToolServer, SubAgentName}, env.blocks)

\* the outcomes a tool call can have now
ToolOutcomes == {"result", "error", "raise"}
ToolOutcomesNow == IF env.faults > 0 THEN ToolOutcomes ELSE {"result"}

(***************************************************************************)
(* AgentLoop: the code shared in shape by the main and the sub-agent loop. *)
(***************************************************************************)
\* a reading of max_turns that takes 0 for "no limit" as well
EffectiveMaxTurnsNonPositive(max_turns) == IF max_turns <= 0 THEN SysMaxSize ELSE max_turns

\* max_turns after "if max_turns < 0: max_turns = sys.maxsize"
EffectiveMaxTurns(max_turns) == IF max_turns < 0 THEN SysMaxSize ELSE max_turns

MaxTurnsOf(f) ==
    EffectiveMaxTurns(IF f = "main" THEN cfg.main_max_turns ELSE cfg.sub_max_turns)

\* a loop test that lets one more turn start than max_turns allows
LoopContinuesInclusive(tc, max_turns) == tc <= max_turns

\* while turn_count < max_turns
LoopContinues(tc, max_turns) == tc < max_turns

\* a selection without the slice: every valid call of the turn
SelectedAll(calls, max_tool_calls) == calls.valid

\* tool_calls[0][:max_tool_calls]
Selected(calls, max_tool_calls) ==
    SubSeq(calls.valid, 1, IF Len(calls.valid) < max_tool_calls
                           THEN Len(calls.valid) ELSE max_tool_calls)

\* tool_calls_exceeded = len(tool_calls) > 0 and len(tool_calls[0]) > max_tool_calls
Exceeded(calls, max_tool_calls) == Len(calls.valid) > max_tool_calls

\* tool_calls is None or len(tool_calls) < 2 or both lists are empty
NoToolUse(calls) == Len(calls.valid) = 0 /\ Len(calls.bad) = 0

\* a summary whose streamed text is always forwarded as message events
SummaryCallbackFinal(f) == "_streaming_final_message"

\* the stream_message_callback given to the LLM call of a turn (664, 1039)
\* and of a summary (866, 1239)
TurnCallback(f) == "_intercept_key_message"
SummaryCallback(f) ==
    IF f = "main" THEN "_streaming_final_message" ELSE "_intercept_key_message"

\* the events of n pieces of text the callback forwards for one LLM call;
\* id is the msg_id of collect_openai_stream
Streamed(callback, id, n) ==
    [i \in 1..n |-> IF callback = "_streaming_final_message"
                    THEN Ev("message", "", id, "delta")
                    ELSE Ev("tool_call", "show_text", id, "delta_input")]

\* how many pieces an LLM call with this outcome may have forwarded
StreamCounts(outcome) ==
    IF outcome \in {"ok", "timeout", "error"} THEN 0..env.chunks ELSE {0}

\* the uuid4() values drawn after n pieces were forwarded
Drawn(n) == IF n > 0 THEN 1 ELSE 0

\* one turn up to the dispatch: turn_count += 1, the LLM call, the breaks
\* and the per-turn cap (main: orchestrator.py:1021-1092, sub: 646-721)
Turn(f, outcome, blocks) ==
    /\ pc[f] = "loop"
    /\ LoopContinues(turn_count[f], MaxTurnsOf(f))
    /\ \E n \in StreamCounts(outcome) :
       LET r == handle_llm_call(message_history[f], outcome, blocks, uuid + Drawn(n) + 1)
       IN  /\ turn_count' = [turn_count EXCEPT ![f] = @ + 1]
           /\ llm_calls' = [llm_calls EXCEPT ![f].turn = @ + 1]
           /\ env' = [env EXCEPT !.faults = IF outcome = "ok" THEN @ ELSE @ - 1,
                                  !.blocks = @ - Len(blocks),
                                  !.sub_runs = @ - SubAgentBlocks(blocks),
                                  !.chunks = @ - n]
           /\ message_history' = [message_history EXCEPT ![f] = r.history]
           /\ events' = events \o Streamed(TurnCallback(f), uuid + 1, n) \o r.emitted
           /\ uuid' = uuid + Drawn(n) + Len(r.emitted)
           /\ IF r.text = ""
              THEN \* the LLM call failed: task_failed = True; break
                   /\ task_failed' = [task_failed EXCEPT ![f] = TRUE]
                   /\ pc' = [pc EXCEPT ![f] = "loop_end"]
                   /\ UNCHANGED turnVars
              ELSE IF r.should_break \/ NoToolUse(r.calls)
              THEN /\ pc' = [pc EXCEPT ![f] = "loop_end"]
                   /\ UNCHANGED <<task_failed, turnVars>>
              ELSE /\ tool_calls' = [tool_calls EXCEPT ![f] = r.calls]
                   /\ tool_calls_exceeded' =
                        [tool_calls_exceeded EXCEPT
                           ![f] = Exceeded(r.calls, cfg.max_tool_calls_per_turn)]
                   /\ results' = [results EXCEPT ![f] = <<>>]
                   /\ call_idx' = [call_idx EXCEPT ![f] = 1]
                   /\ pc' = [pc EXCEPT ![f] =
                               IF Selected(r.calls, cfg.max_tool_calls_per_turn) = <<>>
                               THEN "merge" ELSE "dispatch"]
                   /\ UNCHANGED task_failed
    /\ UNCHANGED <<cfg, interceptVars, channelVars, toolVars, formatVars, sideVars, sumVars, current_agent_id, sub_agent_id, logVars, ret>>

MainTurn == \E o \in Outcomes : \E b \in TurnResponses("main") :
              Turn("main", o, IF o = "ok" THEN b ELSE <<>>)

SubTurn == \E o \in Outcomes : \E b \in TurnResponses("sub") :
              Turn("sub", o, IF o = "ok" THEN b ELSE <<>>)

\* a dispatch that walks the selected calls from the last to the first
CurrentCallBackwards(f) ==
    LET sel == Selected(tool_calls[f], cfg.max_tool_calls_per_turn)
    IN  sel[Len(sel) + 1 - call_idx[f]]

(***************************************************************************)
(* Tool dispatch.                                                          *)
(***************************************************************************)
\* the call the for loop of frame f is at
CurrentCall(f) == Selected(tool_calls[f], cfg.max_tool_calls_per_turn)[call_idx[f]]

\* where frame f goes after the call at call_idx[f]
AfterCall(f) ==
    IF call_idx[f] < Len(Selected(tool_calls[f], cfg.max_tool_calls_per_turn))
    THEN "dispatch" ELSE "merge"

\* an entry of all_tool_results_content_with_id
ResultEntry(id, tool_result) ==
    [id |-> id, content |-> format_tool_result_for_user(tool_result)]

\* an except branch that reports the exception as the tool's output
MainToolResultSwallowed(call, outcome) ==
    IF outcome = "error"
    THEN ToolResult(call.server_name, call.tool_name, "error",
                    "Tool execution failed", call.arguments.raw)
    ELSE ToolResult(call.server_name, call.tool_name, "result", "tool output",
                    call.arguments.raw)

\* what execute_tool_call delivers to the main loop, and what the except
\* branch makes of an exception (orchestrator.py:1140-1165)
MainToolResult(call, outcome) ==
    IF outcome = "result"
    THEN ToolResult(call.server_name, call.tool_name, "result", "tool output",
                    call.arguments.raw)
    ELSE IF outcome = "error"
    THEN ToolResult(call.server_name, call.tool_name, "error",
                    "Tool execution failed", call.arguments.raw)
    ELSE ToolResult(call.server_name, call.tool_name, "error",
                    "[ERROR]: Tool execution timeout", call.arguments.raw)

\* the events of one tool call: the issue event and, unless the call raised,
\* the result event with the same tool_call_id and the usage_info
ToolCallEvents(agent_name, call, outcome, id) ==
    <<Ev("tool_call", call.tool_name, id, "tool_input")>>
    \o (IF outcome = "raise" THEN <<>>
        ELSE <<Ev("tool_call", call.tool_name, id, "result"),
               Ev("usage_info", agent_name, 0, "tool_call")>>)

\* the request a tool manager receives and how the call ended: with a
\* result, with an error in the returned dict, or with an exception
Request(manager, call, outcome) ==
    [manager |-> manager, server_name |-> call.server_name,
     tool_name |-> call.tool_name, arguments |-> call.arguments,
     outcome |-> outcome]

\* main loop, a call that is not for an agent (orchestrator.py:1088-1172)
MainDispatchTool(outcome) ==
    /\ pc["main"] = "dispatch"
    /\ ~StartsWithAgent(CurrentCall("main").server_name)
    /\ LET call == CurrentCall("main")
       IN  /\ events' = events \o ToolCallEvents("main", call, outcome, uuid + 1)
           /\ uuid' = uuid + 1
           /\ registry' = Append(registry, Request("main", call, outcome))
           /\ results' = [results EXCEPT !["main"] =
                            Append(@, ResultEntry(call.id, MainToolResult(call, outcome)))]
    /\ call_idx' = [call_idx EXCEPT !["main"] = @ + 1]
    /\ pc' = [pc EXCEPT !["main"] = AfterCall("main")]
    /\ env' = IF outcome = "result" THEN env ELSE [env EXCEPT !.faults = @ - 1]
    /\ UNCHANGED <<cfg, interceptVars, channelVars, toolVars, formatVars, sideVars, turn_count, task_failed, message_history, tool_calls,
                   tool_calls_exceeded, sumVars, current_agent_id, sub_agent_id,
                   llm_calls, ret>>

\* sub_agent_name.replace('agent-', '')
DisplayName(server_name) ==
    IF server_name = SubAgentName THEN "browsing"
    ELSE IF server_name = UnknownAgentName THEN "unknown" ELSE server_name

\* main loop, a call for an agent (orchestrator.py:1096-1102) and the start
\* of run_sub_agent (orchestrator.py:590-644), which raises ValueError for a
\* name that is not configured; the exception is handled at 1140-1172
MainDispatchAgent ==
    /\ pc["main"] = "dispatch"
    /\ StartsWithAgent(CurrentCall("main").server_name)
    /\ LET call == CurrentCall("main")
           display_name == DisplayName(call.server_name)
       IN  /\ events' = events \o
                 <<Ev("end_of_llm", "main", 0, ""),
                   Ev("end_of_agent", "main", current_agent_id, ""),
                   Ev("start_of_agent", display_name, uuid + 1, ""),
                   Ev("start_of_llm", display_name, 0, "")>>
           /\ uuid' = uuid + 1
           /\ sub_agent_id' = uuid + 1
           /\ IF ConfiguredSubAgent(call.server_name)
              THEN /\ message_history' = [message_history EXCEPT !["sub"] = <<UserTask>>]
                   /\ turn_count' = [turn_count EXCEPT !["sub"] = 0]
                   /\ task_failed' = [task_failed EXCEPT !["sub"] = FALSE]
                   /\ llm_calls' = [llm_calls EXCEPT !["sub"] = [turn |-> 0, summary |-> 0]]
                   /\ results' = [results EXCEPT !["sub"] = <<>>]
                   /\ pc' = [pc EXCEPT !["main"] = "in_sub", !["sub"] = "loop"]
                   /\ UNCHANGED call_idx
              ELSE /\ results' = [results EXCEPT !["main"] =
                         Append(@, ResultEntry(call.id,
                            ToolResult(call.server_name, call.tool_name, "error",
                                       "Sub-agent not found in configuration",
                                       call.arguments.raw)))]
                   /\ call_idx' = [call_idx EXCEPT !["main"] = @ + 1]
                   /\ pc' = [pc EXCEPT !["main"] = AfterCall("main")]
                   /\ UNCHANGED <<message_history, turn_count, task_failed, llm_calls>>
    /\ UNCHANGED <<cfg, interceptVars, channelVars, toolVars, formatVars, sideVars, tool_calls, tool_calls_exceeded, sumVars, current_agent_id,
                   logVars, envVars, ret>>

\* what the sub-agent loop makes of the outcome of execute_tool_call
\* (orchestrator.py:735-797)
SubToolResult(call, outcome) ==
    IF outcome = "result"
    THEN ToolResult(call.server_name, call.tool_name, "result", "tool output",
                    call.arguments.raw)
    ELSE IF outcome = "error"
    THEN ToolResult(call.server_name, call.tool_name, "error",
                    "Tool execution failed", call.arguments.raw)
    ELSE ToolResult(call.server_name, call.tool_name, "error",
                    "Tool call failed: [ERROR]: Tool execution timeout",
                    call.arguments.raw)

\* ToolManager.execute_tool_call answers a server it does not know with an
\* error result (manager.py:243-250)
SubToolOutcomes(call) ==
    IF StartsWithAgent(call.server_name) THEN {"error"} ELSE ToolOutcomesNow

\* sub-agent loop, any call (orchestrator.py:723-797)
SubDispatchTool(outcome) ==
    /\ pc["sub"] = "dispatch"
    /\ outcome \in SubToolOutcomes(CurrentCall("sub"))
    /\ LET call == CurrentCall("sub")
       IN  /\ events' = events \o ToolCallEvents(SubAgentName, call, outcome, uuid + 1)
           /\ uuid' = uuid + 1
           /\ registry' = Append(registry, Request("sub", call, outcome))
           /\ results' = [results EXCEPT !["sub"] =
                            Append(@, ResultEntry(call.id, SubToolResult(call, outcome)))]
    /\ call_idx' = [call_idx EXCEPT !["sub"] = @ + 1]
    /\ pc' = [pc EXCEPT !["sub"] = AfterCall("sub")]
    /\ env' = IF outcome = "result" \/ StartsWithAgent(CurrentCall("sub").server_name)
              THEN env ELSE [env EXCEPT !.faults = @ - 1]
    /\ UNCHANGED <<cfg, interceptVars, channelVars, toolVars, formatVars, sideVars, turn_count, task_failed, message_history, tool_calls,
                   tool_calls_exceeded, sumVars, current_agent_id, sub_agent_id,
                   llm_calls, ret>>

(***************************************************************************)
(* Merging the results of a turn: update_message_history.                  *)
(***************************************************************************)
\* [(tool_id, content) for ... if tool_id != "FAILED"]
RECURSIVE ValidResults(_)
ValidResults(info) ==
    IF info = <<>> THEN <<>>
    ELSE IF Head(info).id # "FAILED"
         THEN <<Head(info)>> \o ValidResults(Tail(info))
         ELSE ValidResults(Tail(info))

\* [(tool_id, content) for ... if tool_id == "FAILED"]
RECURSIVE FailedResults(_)
FailedResults(info) ==
    IF info = <<>> THEN <<>>
    ELSE IF Head(info).id = "FAILED"
         THEN <<Head(info)>> \o FailedResults(Tail(info))
         ELSE FailedResults(Tail(info))

\* a merged text that lists the failed results before the valid ones
MergedPartsFailedFirst(info, exceeded) ==
    LET valid == ValidResults(info)
        bad == FailedResults(info)
    IN  IF Len(valid) + Len(bad) > 1
        THEN <<Part(IF exceeded THEN "too_many" ELSE "processed", Len(valid), "")>>
             \o [i \in 1..Len(bad) |-> Part("failed", i, bad[i].content.text)]
             \o [i \in 1..Len(valid) |-> Part("valid", i, valid[i].content.text)]
        ELSE [i \in 1..Len(valid) |-> Part("plain", 0, valid[i].content.text)]
             \o [i \in 1..Len(bad) |-> Part("plain", 0, bad[i].content.text)]

\* the parts of merged_text, in the order they are joined
MergedParts(info, exceeded) ==
    LET valid == ValidResults(info)
        bad == FailedResults(info)
    IN  IF Len(valid) + Len(bad) > 1
        THEN <<Part(IF exceeded THEN "too_many" ELSE "processed", Len(valid), "")>>
             \o [i \in 1..Len(valid) |-> Part("valid", i, valid[i].content.text)]
             \o [i \in 1..Len(bad) |-> Part("failed", i, bad[i].content.text)]
        ELSE [i \in 1..Len(valid) |-> Part("plain", 0, valid[i].content.text)]
             \o [i \in 1..Len(bad) |-> Part("plain", 0, bad[i].content.text)]

\* a merge that appends one user message per result instead of one in all
update_message_history_each(history, info, exceeded) ==
    history \o [i \in 1..Len(info) |-> ToolResultsMsg(MergedParts(<<info[i]>>, exceeded))]

\* OpenCodeClient.update_message_history
update_message_history(history, info, exceeded) ==
    Append(history, ToolResultsMsg(MergedParts(info, exceeded)))

\* the synthetic result for a turn with malformed calls: it quotes the
\* error of the first malformed call (orchestrator.py:1174-1193, 799-818)
ReThink(calls) ==
    IF Len(calls.bad) > 0
    THEN <<ResultEntry("FAILED",
             ToolResult("re-think", "re-think", "result", calls.bad[1].error,
                        calls.bad[1].content))>>
    ELSE <<>>

\* the end of a turn with tool calls (main: orchestrator.py:1174-1198,
\* sub: 799-822)
Merge(f) ==
    /\ pc[f] = "merge"
    /\ LET info == results[f] \o ReThink(tool_calls[f])
       IN  /\ results' = [results EXCEPT ![f] = info]
           /\ message_history' = [message_history EXCEPT ![f] =
                update_message_history(@, info, tool_calls_exceeded[f])]
    /\ pc' = [pc EXCEPT ![f] = "loop"]
    /\ UNCHANGED <<cfg, interceptVars, channelVars, toolVars, formatVars, sideVars, turn_count, task_failed, tool_calls, tool_calls_exceeded,
                   call_idx, sumVars, events, uuid, current_agent_id, sub_agent_id,
                   logVars, llm_calls, envVars, ret>>

MainMerge == Merge("main")
SubMerge == Merge("sub")

(***************************************************************************)
(* The end of the loop.                                                    *)
(***************************************************************************)
LoopEnded(f) ==
    \/ pc[f] = "loop_end"
    \/ pc[f] = "loop" /\ ~LoopContinues(turn_count[f], MaxTurnsOf(f))

\* if turn_count >= max_turns: task_failed = True
FailedAtLoopEnd(f) == task_failed[f] \/ turn_count[f] >= MaxTurnsOf(f)

\* main: orchestrator.py:1201-1226
MainLoopEnd ==
    /\ LoopEnded("main")
    /\ events' = events \o
          <<Ev("end_of_llm", "main", 0, ""),
            Ev("end_of_agent", "main", current_agent_id, ""),
            Ev("start_of_agent", "reporter", uuid + 1, ""),
            Ev("start_of_llm", "reporter", 0, "")>>
    /\ uuid' = uuid + 1
    /\ current_agent_id' = uuid + 1
    /\ task_failed' = [task_failed EXCEPT !["main"] = FailedAtLoopEnd("main")]
    /\ entry' = [entry EXCEPT !["main"] = message_history["main"]]
    /\ pc' = [pc EXCEPT !["main"] = "sum_prompt"]
    /\ UNCHANGED <<cfg, interceptVars, channelVars, toolVars, formatVars, sideVars, turn_count, message_history, turnVars, network_retry_count,
                   final_answer_text, sub_agent_id, logVars, llm_calls, envVars, ret>>

\* sub: orchestrator.py:824-853
SubLoopEnd ==
    /\ LoopEnded("sub")
    /\ events' = Append(events, Ev("tool_call", "Partial Summary", uuid + 1, "tool_input"))
    /\ uuid' = uuid + 1
    /\ task_failed' = [task_failed EXCEPT !["sub"] = FailedAtLoopEnd("sub")]
    /\ entry' = [entry EXCEPT !["sub"] = message_history["sub"]]
    /\ pc' = [pc EXCEPT !["sub"] = "sum_prompt"]
    /\ UNCHANGED <<cfg, interceptVars, channelVars, toolVars, formatVars, sideVars, turn_count, message_history, turnVars, network_retry_count,
                   final_answer_text, current_agent_id, sub_agent_id, logVars,
                   llm_calls, envVars, ret>>

(***************************************************************************)
(* SummaryWithRetry: _handle_summary_with_context_limit_retry.             *)
(***************************************************************************)
\* OpenCodeClient.handle_max_turns_reached_summary_prompt: the history
\* without its last message when that is a user message, and what is pulled
\* into the prompt
handle_max_turns_reached_summary_prompt(history) ==
    IF Last(history).role = "user"
    THEN [history |-> Pop(history), pulled |-> <<Last(history)>>]
    ELSE [history |-> history, pulled |-> <<>>]

\* the prompt is generated, merged and appended (orchestrator.py:494-515)
SummaryPrompt(f) ==
    /\ pc[f] = "sum_prompt"
    /\ Len(message_history[f]) > 0
    /\ LET m == handle_max_turns_reached_summary_prompt(message_history[f])
       IN  message_history' = [message_history EXCEPT ![f] =
                Append(m.history, SummaryPromptMsg(m.pulled, task_failed[f]))]
    /\ network_retry_count' = [network_retry_count EXCEPT ![f] = 0]
    /\ pc' = [pc EXCEPT ![f] = "sum_call"]
    /\ UNCHANGED <<cfg, interceptVars, channelVars, toolVars, formatVars, sideVars, turn_count, task_failed, turnVars, final_answer_text, entry,
                   events, uuid, current_agent_id, sub_agent_id, logVars, llm_calls,
                   envVars, ret>>

\* the history after a failed attempt (orchestrator.py:553-558)
Pruned(history) ==
    LET h1 == IF history # <<>> /\ Last(history).role = "user"
              THEN Pop(history) ELSE history
    IN  IF h1 # <<>> /\ Last(h1).role = "assistant" THEN Pop(h1) ELSE h1

\* if len(message_history) <= 2: break
GivesUp(history) == Len(history) <= MinHistoryLen

\* one round of "for network_retry_count in range(5)" and, when the for loop
\* is left without text, the pruning (orchestrator.py:517-571)
SummaryCall(f, outcome) ==
    /\ pc[f] = "sum_call"
    /\ \E n \in StreamCounts(outcome) :
       LET r == handle_llm_call(message_history[f], outcome, <<>>, uuid + Drawn(n) + 1)
           left == r.info = "context_limit"
                   \/ network_retry_count[f] + 1 >= NetworkRetries
       IN  /\ llm_calls' = [llm_calls EXCEPT ![f].summary = @ + 1]
           /\ env' = IF outcome = "ok" THEN [env EXCEPT !.chunks = @ - n]
                     ELSE IF env.summary_faults > 0
                     THEN [env EXCEPT !.summary_faults = @ - 1, !.chunks = @ - n]
                     ELSE [env EXCEPT !.faults = @ - 1, !.chunks = @ - n]
           /\ events' = events \o Streamed(SummaryCallback(f), uuid + 1, n) \o r.emitted
           /\ uuid' = uuid + Drawn(n) + Len(r.emitted)
           /\ IF r.text # ""
              THEN /\ message_history' = [message_history EXCEPT ![f] = r.history]
                   /\ final_answer_text' = [final_answer_text EXCEPT ![f] = r.text]
                   /\ pc' = [pc EXCEPT ![f] = "sum_done"]
                   /\ UNCHANGED <<task_failed, network_retry_count>>
              ELSE IF left
              THEN /\ message_history' = [message_history EXCEPT ![f] = Pruned(r.history)]
                   /\ task_failed' = [task_failed EXCEPT ![f] = TRUE]
                   /\ IF GivesUp(Pruned(r.history))
                      THEN /\ final_answer_text' =
                                [final_answer_text EXCEPT ![f] = ErrorLiteral]
                           /\ pc' = [pc EXCEPT ![f] = "sum_done"]
                      ELSE /\ final_answer_text' = final_answer_text
                           /\ pc' = [pc EXCEPT ![f] = "sum_prompt"]
                   /\ UNCHANGED network_retry_count
              ELSE /\ message_history' = [message_history EXCEPT ![f] = r.history]
                   /\ network_retry_count' = [network_retry_count EXCEPT ![f] = @ + 1]
                   /\ UNCHANGED <<task_failed, final_answer_text, pc>>
    /\ UNCHANGED <<cfg, interceptVars, channelVars, toolVars, formatVars, sideVars, turn_count, turnVars, entry, current_agent_id, sub_agent_id,
                   logVars, ret>>

MainSummaryPrompt == SummaryPrompt("main")
SubSummaryPrompt == SummaryPrompt("sub")
MainSummaryCall == \E o \in SummaryOutcomes : SummaryCall("main", o)
SubSummaryCall == \E o \in SummaryOutcomes : SummaryCall("sub", o)

(***************************************************************************)
(* The end of run_sub_agent and of run_main_agent.                         *)
(***************************************************************************)
\* the end of run_sub_agent (orchestrator.py:869-902) and the rest of the
\* main loop's try block for the call (orchestrator.py:1103-1110, 1126-1172)
SubFinish ==
    /\ pc["sub"] = "sum_done"
    /\ LET call == CurrentCall("main")
           sub_agent_result ==
               IF final_answer_text["sub"] # "" THEN final_answer_text["sub"]
               ELSE "No final answer generated by sub agent."
       IN  /\ events' = events \o
                 <<Ev("end_of_llm", DisplayName(call.server_name), 0, ""),
                   Ev("end_of_agent", DisplayName(call.server_name), sub_agent_id, ""),
                   Ev("start_of_agent", "main", uuid + 1, "Summarizing"),
                   Ev("start_of_llm", "main", 0, "Summarizing")>>
           /\ uuid' = uuid + 1
           /\ current_agent_id' = uuid + 1
           /\ results' = [results EXCEPT !["main"] =
                Append(@, ResultEntry(call.id,
                    ToolResult(call.server_name, call.tool_name, "result",
                               sub_agent_result, call.arguments.raw)))]
    /\ call_idx' = [call_idx EXCEPT !["main"] = @ + 1]
    /\ pc' = [pc EXCEPT !["main"] = AfterCall("main"), !["sub"] = "idle"]
    /\ UNCHANGED <<cfg, interceptVars, channelVars, toolVars, formatVars, sideVars, turn_count, task_failed, message_history, tool_calls,
                   tool_calls_exceeded, sumVars, sub_agent_id, logVars, llm_calls,
                   envVars, ret>>

\* usage events that report the sub-agents' client whether or not it is
\* the main one
EndUsagesOfBoth(sub_client) ==
    <<Ev("usage_info", "main", 0, "main_agent_end"),
      Ev("usage_info", "sub_agent", 0, "sub_agent_end")>>

\* the usage_info events at the end of the run (orchestrator.py:1349-1356)
EndUsages(sub_client) ==
    <<Ev("usage_info", "main", 0, "main_agent_end")>>
    \o (IF sub_client # LlmClient
        THEN <<Ev("usage_info", "sub_agent", 0, "sub_agent_end")>>
        ELSE <<>>)

\* the end of run_main_agent (orchestrator.py:1242-1368), with
\* final_answer_extraction switched off;
\* ret holds the text given to the output formatter, whose work on the
\* characters of a text is FormatOutput
MainFinish ==
    /\ pc["main"] = "sum_done"
    /\ LET text == IF final_answer_text["main"] # "" THEN final_answer_text["main"]
                   ELSE "No final answer generated."
       IN  ret' = [kind |-> "returned", summary |-> "Final Answer: " \o text,
                   boxed |-> text]
    /\ events' = events \o
          <<Ev("end_of_llm", "reporter", 0, ""),
            Ev("end_of_agent", "reporter", current_agent_id, "")>>
          \o EndUsages(sub_agent_llm_client)
          \o <<Ev("end_of_workflow", "", WorkflowId, ""),
               Sentinel>>
    /\ pc' = [pc EXCEPT !["main"] = "returned"]
    /\ UNCHANGED <<cfg, interceptVars, channelVars, toolVars, formatVars, sideVars, turn_count, task_failed, message_history, turnVars, sumVars,
                   uuid, current_agent_id, sub_agent_id, logVars, llm_calls, envVars>>

Next ==
    \/ StartWorkflow
    \/ \E found \in BOOLEAN : ProcessInput(found)
    \/ \E found \in BOOLEAN : LoadPrompt(found)
    \/ MainTurn
    \/ \E o \in ToolOutcomesNow : MainDispatchTool(o)
    \/ MainDispatchAgent
    \/ MainMerge
    \/ MainLoopEnd
    \/ MainSummaryPrompt
    \/ MainSummaryCall
    \/ MainFinish
    \/ SubTurn
    \/ \E o \in ToolOutcomes : SubDispatchTool(o)
    \/ SubMerge
    \/ SubLoopEnd
    \/ SubSummaryPrompt
    \/ SubSummaryCall
    \/ SubFinish

Spec == Init /\ [][Next]_vars

\* the same run with an environment that spends its failures on the summaries
SummaryConfigs ==
    {c \in Configs : c.main_max_turns >= 0 /\ c.max_tool_calls_per_turn = 1}

InitSummary ==
    \E c \in SummaryConfigs :
        InitFrame(c, Budget(0, SummaryFaults, SummaryBlocks, MaxSubRuns))

SummarySpec == InitSummary /\ [][Next]_vars

\* the run of an orchestrator built with or without a client of its own for
\* the sub-agents
ClientBlocks == 2      \* blocks the LLM emits in such a run

InitTwoClients ==
    /\ \E c \in Configs : InitRun(c, Budget(0, 0, ClientBlocks, MaxSubRuns))
    /\ InitInterceptor(<<>>) /\ InitChannel /\ InitToolManager /\ InitFormatter
    /\ InitLlm /\ InitStreams /\ InitApart
    /\ sub_agent_llm_client \in {LlmClient, OwnSubClient}

ClientSpec == InitTwoClients /\ [][Next]_vars

\* a run in which the LLM fails in a turn and then fails every attempt at a
\* summary prompt
RetryFaults == 1       \* turn and tool failures injected into such a run
RetryBlocks == 2       \* blocks the LLM emits in such a run

InitRetry ==
    \E c \in SummaryConfigs :
        InitFrame(c, Budget(RetryFaults, NetworkRetries, RetryBlocks, MaxSubRuns))

RetrySpec == InitRetry /\ [][Next]_vars

(***************************************************************************)
(* The run with an LLM that streams its text: up to StreamChunks pieces    *)
(* are forwarded by the callbacks.                                         *)
(***************************************************************************)
StreamChunks == 2
StreamBlocks == 2

InitStream ==
    \E c \in Configs :
        InitFrame(c, Streaming(Budget(0, 0, StreamBlocks, MaxSubRuns), StreamChunks))

StreamSpec == InitStream /\ [][Next]_vars

(***************************************************************************)
(* A stream of text deltas passed through the interceptor, as the          *)
(* stream_message_callback does (orchestrator.py:273-296): any chunking of  *)
(* the text, the last delta with is_last = True.                           *)
(***************************************************************************)
\* _intercept_key_message and _streaming_final_message send the result on
\* unless it is None or holds an unbreakable string
Forwards(result) == ~result.none /\ ~is_unbreakable_string(result.text)

\* one call of the callback, and so of process, with the next n characters
\* of the stream
Process(n, is_last) ==
    /\ ~finished
    /\ fed + n <= Len(whole)
    /\ is_last => fed + n = Len(whole)
    /\ LET p == process(buffer, SubSeq(whole, fed + 1, fed + n), is_last)
       IN  /\ buffer' = p.buffer
           /\ forwarded' = IF Forwards(p.result) THEN forwarded \o p.result.text
                            ELSE forwarded
    /\ fed' = fed + n
    /\ finished' = is_last
    /\ whole' = whole
    /\ UNCHANGED <<runVars, channelVars, toolVars, formatVars, sideVars>>

ProcessDelta == \E n \in 0..MaxTextLen : Process(n, FALSE)
ProcessLast == \E n \in 0..MaxTextLen : Process(n, TRUE)

\* a configuration for an orchestrator whose run is not looked at
IdleConfig == CHOOSE c \in Configs : TRUE

\* a fresh interceptor (one per Orchestrator) and any text
InitIntercept ==
    /\ InitRun(IdleConfig, Budget(0, 0, 0, 0))
    /\ InitChannel
    /\ InitToolManager /\ InitFormatter /\ InitSide
    /\ \E text \in Texts(MaxTextLen) : InitInterceptor(text)

NextIntercept == ProcessDelta \/ ProcessLast

InterceptSpec == InitIntercept /\ [][NextIntercept]_vars

\* the streams of several LLM calls, one after the other, through the one
\* interceptor of the orchestrator
MaxStreams == 2        \* LLM calls that stream through the interceptor
StreamTextLen == 3     \* characters of the text of a later call

\* the next LLM call starts to stream its text: a new msg_id, nothing fed
\* or forwarded yet; self.key_message_interceptor is the same object
StartStream(text) ==
    /\ streams < MaxStreams
    /\ streams' = streams + 1
    /\ whole' = text
    /\ fed' = 0
    /\ forwarded' = <<>>
    /\ finished' = FALSE
    /\ buffer' = buffer
    /\ UNCHANGED <<runVars, channelVars, toolVars, formatVars, llmVars,
                   sub_agent_llm_client, apartVars>>

\* collect_openai_stream came to its end and made the callback with
\* is_last = True; a later LLM call streams
NextCallAfterEnd == finished /\ \E text \in Texts(StreamTextLen) : StartStream(text)

\* "async for chunk in stream" raised (timeout, connection error): the rest
\* of collect_openai_stream, the callback with is_last = True included, is
\* not run; _handle_llm_call_with_logging catches the exception and a later
\* LLM call streams
NextCallAfterRaise == ~finished /\ \E text \in Texts(StreamTextLen) : StartStream(text)

NextCalls == ProcessDelta \/ ProcessLast \/ NextCallAfterEnd \/ NextCallAfterRaise

CallsSpec == InitIntercept /\ [][NextCalls]_vars

(***************************************************************************)
(* The channel to the observer.  self.stream_queue is handed to the        *)
(* constructor: a bounded FIFO channel whose put waits while the channel   *)
(* is full.  The run awaits each put before it goes on, so a step of the   *)
(* run waits until every message of the step before it has been put.       *)
(***************************************************************************)
\* the capacity of the channel
QueueSize == 2

\* a channel that takes every item at once
NeverFull(queue) == FALSE

\* the channel holds as many items as it can: put waits
Full(queue) == Len(queue) >= QueueSize

\* the run is inside "await self.stream_queue.put(...)" or about to call it
Producing == put_count < Len(events)

\* await self.stream_queue.put(stream_message) completes
\* (orchestrator.py:156, 183)
Put ==
    /\ Producing
    /\ ~Full(stream_queue)
    /\ stream_queue' = Append(stream_queue, events[put_count + 1])
    /\ put_count' = put_count + 1
    /\ UNCHANGED <<runVars, interceptVars, toolVars, formatVars, sideVars, received>>

\* the observer takes the oldest item
Get ==
    /\ stream_queue # <<>>
    /\ received' = Append(received, Head(stream_queue))
    /\ stream_queue' = Tail(stream_queue)
    /\ UNCHANGED <<runVars, interceptVars, toolVars, formatVars, sideVars, put_count>>

\* a step of the run, which is not waiting in a put
RunStep == ~Producing /\ Next

\* the budget of a run that is observed
ChannelBlocks == 2

InitObserved ==
    \E c \in SummaryConfigs : InitFrame(c, Budget(0, 0, ChannelBlocks, MaxSubRuns))

NextObserved == RunStep \/ Put \/ Get

ChannelSpec == InitObserved /\ [][NextObserved]_vars

(***************************************************************************)
(* Cancellation of the task that runs run_main_agent.  CancelledError is   *)
(* raised at the await the run is suspended in.  It is no Exception, so no *)
(* "except Exception" of the run catches it (orchestrator.py:158, 436-464, *)
(* 1140; opencode_client.py:230 re-raises it), and the run has no finally: *)
(* it leaves run_main_agent from where it was, the pending put and         *)
(* everything after it never happen.                                       *)
(***************************************************************************)
Cancelled == [kind |-> "cancelled", summary |-> "", boxed |-> ""]

\* the run is suspended: in a put, in an LLM call of a turn or of the summary
\* (or the sleep between two summary calls), or in a tool call
AtSuspensionPoint ==
    \/ Producing
    \/ /\ ret.kind = "none"
       /\ \E f \in Frames :
             \/ pc[f] = "loop" /\ LoopContinues(turn_count[f], MaxTurnsOf(f))
             \/ pc[f] = "sum_call"
             \/ pc[f] = "dispatch"

Cancel ==
    /\ ret.kind \in {"none", "returned"}
    /\ AtSuspensionPoint
    /\ ret' = Cancelled
    /\ pc' = [f \in Frames |-> IF pc[f] = "idle" THEN "idle" ELSE "cancelled"]
    /\ events' = SubSeq(events, 1, put_count)
    /\ UNCHANGED <<cfg, interceptVars, channelVars, toolVars, formatVars, sideVars, turn_count, task_failed,
                   message_history, turnVars, sumVars, uuid, current_agent_id,
                   sub_agent_id, registry, llm_calls, env>>

NextCancel == NextObserved \/ Cancel

CancelSpec == InitObserved /\ [][NextCancel]_vars

(***************************************************************************)
(* update_message_history on its own: any list of up to MaxResults         *)
(* results, valid or failed, and either value of tool_calls_exceeded.      *)
(***************************************************************************)
MaxResults == 3

\* the entries all_tool_results_content_with_id can hold at position i
ResultEntries(i) ==
    {ResultEntry("None", ToolResult(ToolServer, "run", key, "tool output", i)) :
        key \in {"result", "error"}}
    \cup {ResultEntry("FAILED",
             ToolResult("re-think", "re-think", "result", "Unclosed use_mcp_tool tag", i))}

ResultLists ==
    UNION {{info \in [1..n -> UNION {ResultEntries(i) : i \in 1..n}] :
               \A i \in 1..n : info[i] \in ResultEntries(i)} : n \in 0..MaxResults}

\* the main loop right before its call of update_message_history
InitMerge ==
    /\ cfg = IdleConfig
    /\ pc = [f \in Frames |-> IF f = "main" THEN "merge" ELSE "idle"]
    /\ turn_count = [f \in Frames |-> IF f = "main" THEN 1 ELSE 0]
    /\ task_failed = [f \in Frames |-> FALSE]
    /\ message_history =
          [f \in Frames |-> IF f = "main" THEN <<UserTask, AssistantMsg(<<>>, "text")>>
                            ELSE <<>>]
    /\ tool_calls = [f \in Frames |-> NoToolCalls]
    /\ \E e \in BOOLEAN :
          tool_calls_exceeded = [f \in Frames |-> IF f = "main" THEN e ELSE FALSE]
    /\ call_idx = [f \in Frames |-> 1]
    /\ \E info \in ResultLists :
          results = [f \in Frames |-> IF f = "main" THEN info ELSE <<>>]
    /\ network_retry_count = [f \in Frames |-> 0]
    /\ final_answer_text = [f \in Frames |-> ""]
    /\ events = <<>>
    /\ uuid = 0
    /\ current_agent_id = 0
    /\ sub_agent_id = 0
    /\ registry = <<>>
    /\ llm_calls = [f \in Frames |-> [turn |-> 0, summary |-> 0]]
    /\ env = Budget(0, 0, 0, 0)
    /\ entry = [f \in Frames |-> <<>>]
    /\ ret = NoReturn
    /\ InitInterceptor(<<>>)
    /\ InitChannel
    /\ InitToolManager /\ InitFormatter /\ InitSide

MergeSpec == InitMerge /\ [][MainMerge]_vars

(***************************************************************************)
(* ToolManager.execute_tool_call, one call at a time.  A url is the        *)
(* sequence of its "/"-separated parts; the strings of results and errors  *)
(* are kept up to the text the tool or the exception supplies.             *)
(***************************************************************************)
Unset == "<unset>"
Refusal == "You are trying to scrape a Hugging Face dataset for answers, please do not use the scrape tool for this purpose."

\* server_dict: the kind of parameters configured under each name
ConfiguredServers == {"tool-reading", "tool-sse", "playwright", "tool-odd"}
ManagerServerNames == ConfiguredServers \cup {"tool-missing"}
get_server_params(server_name) ==
    CASE server_name \in {"tool-reading", "playwright"} -> "stdio"
      [] server_name = "tool-sse" -> "sse"
      [] server_name = "tool-odd" -> "other"
      [] OTHER -> "none"

ManagerToolNames == {"scrape", "run", "no_such_tool"}
Urls == {<<"huggingface.co", "datasets", "gaia">>, <<"huggingface.co", "spaces", "demo">>,
         <<"huggingface.co", "docs">>, <<"example.com", "datasets">>}
\* the arguments of a call: a dict with a url (possibly empty), a dict without
\* one, or a string that contains the letters "url"
ManagerArguments ==
    {[type |-> "dict", has_url |-> TRUE, url |-> u] : u \in Urls \cup {<<>>}}
    \cup {[type |-> "dict", has_url |-> FALSE, url |-> <<>>],
          [type |-> "str", has_url |-> TRUE, url |-> <<>>]}

\* "a/b" in url
HasParts(url, a, b) == \E i \in 1..(Len(url) - 1) : url[i] = a /\ url[i + 1] = b

is_huggingface_dataset_or_space_url(url) ==
    /\ url # <<>>
    /\ \/ HasParts(url, "huggingface.co", "datasets")
       \/ HasParts(url, "huggingface.co", "spaces")

\* "raise" stands for the AttributeError of arguments.get on a string
should_block_hf_scraping(tool_name, arguments) ==
    IF tool_name # "scrape" THEN "false"
    ELSE IF arguments.type = "str" THEN "raise"
    ELSE IF arguments.has_url /\ is_huggingface_dataset_or_space_url(arguments.url)
         THEN "true" ELSE "false"

ReturnedResult(call, text) ==
    [kind |-> "returned", server_name |-> call.server_name, tool_name |-> call.tool_name,
     result |-> text, error |-> Unset]
ReturnedError(call, text) ==
    [kind |-> "returned", server_name |-> call.server_name, tool_name |-> call.tool_name,
     result |-> Unset, error |-> text]
RaisedFrom(exception) == [kind |-> "raised", exception |-> exception]

Wire(op, call) == [op |-> op, server_name |-> call.server_name, tool_name |-> call.tool_name]

\* the call starts
InitCall ==
    /\ tm_call \in [server_name : ManagerServerNames, tool_name : ManagerToolNames,
                    arguments : ManagerArguments]
    /\ tm_pc = "called"
    /\ tm_wire = <<>>
    /\ tm_ret = [kind |-> "none"]

Return(r) == tm_ret' = r /\ tm_pc' = "done"

\* the handler of the outer except: the MarkItDown fallback is tried for a
\* scrape whose failure mentions "unhandled errors"; arguments["url"] of a
\* string raises TypeError inside the handler
OuterExcept(message) ==
    IF /\ tm_call.tool_name = "scrape"
       /\ message = "unhandled errors"
       /\ tm_call.arguments.has_url
    THEN IF tm_call.arguments.type = "str"
         THEN Return(RaisedFrom("TypeError"))
         ELSE tm_pc' = "fallback" /\ tm_ret' = tm_ret
    ELSE Return(ReturnedError(tm_call, "Tool call failed: " \o message))

\* get_server_params and the choice of the branch
Lookup ==
    /\ tm_pc = "called"
    /\ LET server_params == get_server_params(tm_call.server_name)
       IN  IF server_params = "none"
           THEN Return(ReturnedError(tm_call, "Server not found."))
           ELSE IF server_params = "other" /\ tm_call.server_name # "playwright"
           THEN OuterExcept("Unknown server params type")
           ELSE tm_pc' = "connecting" /\ tm_ret' = tm_ret
    /\ UNCHANGED <<tm_call, tm_wire, runVars, interceptVars, channelVars, formatVars, sideVars>>

ConnectOutcomes == {"ok", "refused", "unhandled errors", "hangs"}

\* PlaywrightSession.connect, or stdio_client / sse_client with
\* session.initialize
Connect(outcome) ==
    /\ tm_pc = "connecting"
    /\ tm_wire' = Append(tm_wire, Wire("connect", tm_call))
    /\ CASE outcome = "ok" -> tm_pc' = "connected" /\ tm_ret' = tm_ret
         [] outcome = "hangs" -> Return(RaisedFrom("TimeoutError"))
         [] OTHER ->
              IF tm_call.server_name = "playwright"
              THEN Return(ReturnedError(tm_call, "Tool call failed: " \o outcome))
              ELSE OuterExcept(outcome)
    /\ UNCHANGED <<tm_call, runVars, interceptVars, channelVars, formatVars, sideVars>>

\* session.call_tool sends its request
SendCallTool ==
    /\ tm_pc = "connected"
    /\ tm_wire' = Append(tm_wire, Wire("call_tool", tm_call))
    /\ tm_pc' = "awaiting"
    /\ UNCHANGED <<tm_call, tm_ret, runVars, interceptVars, channelVars, formatVars, sideVars>>

Replies == {"text", "empty", "no_content", "raises", "hangs"}

\* result_content of a reply that is not an exception
result_content(tool_name, reply) ==
    CASE reply = "text" -> "tool output"
      [] reply = "empty" -> "Tool completed but returned empty text"
      [] OTHER -> "Tool completed but returned no content"

\* the reply to call_tool arrives, or the 600 seconds of with_timeout pass
Reply(reply) ==
    /\ tm_pc = "awaiting"
    /\ IF reply = "hangs" THEN Return(RaisedFrom("TimeoutError"))
       ELSE IF tm_call.server_name = "playwright"
       THEN CASE reply = "raises" -> Return(ReturnedError(tm_call, "Tool call failed: tool error"))
              [] reply = "text" -> Return(ReturnedResult(tm_call, "tool output"))
              [] OTHER -> Return(ReturnedResult(tm_call, "Tool returned empty result"))
       ELSE IF reply = "raises"
       THEN Return(ReturnedError(tm_call, "Tool execution failed: tool error"))
       ELSE LET block == should_block_hf_scraping(tm_call.tool_name, tm_call.arguments)
            IN  CASE block = "raise" ->
                       Return(ReturnedError(tm_call, "Tool execution failed: AttributeError"))
                  [] block = "true" -> Return(ReturnedResult(tm_call, Refusal))
                  [] OTHER ->
                       Return(ReturnedResult(tm_call, result_content(tm_call.tool_name, reply)))
    /\ UNCHANGED <<tm_call, tm_wire, runVars, interceptVars, channelVars, formatVars, sideVars>>

\* MarkItDown().convert(arguments["url"]) in the handler of the outer except
Fallback(converted) ==
    /\ tm_pc = "fallback"
    /\ tm_wire' = Append(tm_wire, Wire("markitdown", tm_call))
    /\ IF converted THEN Return(ReturnedResult(tm_call, "page text"))
       ELSE Return(ReturnedError(tm_call, "Tool call failed: unhandled errors"))
    /\ UNCHANGED <<tm_call, runVars, interceptVars, channelVars, formatVars, sideVars>>

InitTool ==
    /\ InitRun(IdleConfig, Budget(0, 0, 0, 0))
    /\ InitInterceptor(<<>>)
    /\ InitChannel
    /\ InitFormatter /\ InitSide
    /\ InitCall

NextTool ==
    \/ Lookup
    \/ \E o \in ConnectOutcomes : Connect(o)
    \/ SendCallTool
    \/ \E r \in Replies : Reply(r)
    \/ \E c \in BOOLEAN : Fallback(c)

ToolSpec == InitTool /\ [][NextTool]_vars

(***************************************************************************)
(* The final output: OutputFormatter on the text the summary returned.  A  *)
(* text is a sequence of units: "b" stands for the letters \boxed, "{" and *)
(* "}" for the braces, "x" for any other character; a fixed phrase of the  *)
(* program is one unit.                                                    *)
(***************************************************************************)
MaxChars == 4

TextChars == {"b", "{", "}", "x"}
NoAnswerText == <<"No final answer generated.">>
NoBoxedText == <<"Final response is generated by LLM, but no \\boxed{} content found.">>
ErrorText == <<ErrorLiteral>>

\* [^{}]*(?:\{[^{}]*\}[^{}]*)* followed by \} from position p on: the position
\* of that closing brace, 0 when the pattern does not match
RECURSIVE ScanContent(_, _, _)
ScanContent(text, p, nested) ==
    IF p > Len(text) THEN 0
    ELSE IF text[p] = "{" THEN IF nested THEN 0 ELSE ScanContent(text, p + 1, TRUE)
    ELSE IF text[p] = "}" THEN IF nested THEN ScanContent(text, p + 1, FALSE) ELSE p
    ELSE ScanContent(text, p + 1, nested)

RECURSIVE FirstClose(_, _)
FirstClose(text, p) ==
    IF p > Len(text) THEN 0
    ELSE IF text[p] = "}" THEN p ELSE FirstClose(text, p + 1)

\* where a match of primary_pattern / fallback_pattern that starts at i ends
PatternEnd(text, i, primary) ==
    IF ~(i + 1 <= Len(text) /\ text[i] = "b" /\ text[i + 1] = "{") THEN 0
    ELSE IF primary THEN ScanContent(text, i + 2, FALSE)
    ELSE IF i + 2 <= Len(text) /\ text[i + 2] # "}" THEN FirstClose(text, i + 3)
    ELSE 0

\* re.findall(pattern, text): the groups of the matches, left to right
RECURSIVE findall(_, _, _)
findall(text, i, primary) ==
    IF i > Len(text) THEN <<>>
    ELSE LET k == PatternEnd(text, i, primary)
         IN  IF k = 0 THEN findall(text, i + 1, primary)
             ELSE <<SubSeq(text, i + 2, k - 1)>> \o findall(text, k + 1, primary)

\* the matches _extract_boxed_content chooses from
BoxedMatches(text) ==
    LET matches == findall(text, 1, TRUE)
    IN  IF matches = <<>> THEN findall(text, 1, FALSE) ELSE matches

extract_boxed_content(text) ==
    IF text = <<>> \/ BoxedMatches(text) = <<>> THEN <<>>
    ELSE Last(BoxedMatches(text))

\* the first two components of what format_final_summary_and_log returns
format_final_summary_and_log(final_answer) ==
    LET boxed == extract_boxed_content(final_answer)
        boxed_result == IF boxed # <<>> THEN boxed
                        ELSE IF final_answer # <<>> THEN NoBoxedText
                        ELSE NoAnswerText
    IN  [final_summary |->
             <<"Final Answer">> \o final_answer \o <<"Extracted Result">>
             \o (IF boxed # <<>> THEN boxed ELSE <<"No \\boxed{} content found.">>)
             \o <<"Token Usage & Cost">>,
         final_boxed_answer |-> boxed_result]

Benchmarks == {"gaia-validation", "browsecomp-zh"}

\* the texts _handle_summary_with_context_limit_retry returns to the main
\* agent: a generated text, which is not empty, or the error literal
SummaryTexts ==
    UNION {[1..n -> TextChars] : n \in 1..MaxChars} \cup {ErrorText}

InitFormat ==
    /\ InitRun(IdleConfig, Budget(0, 0, 0, 0))
    /\ InitInterceptor(<<>>)
    /\ InitChannel
    /\ InitToolManager
    /\ InitSide
    /\ fmt_in \in [text : SummaryTexts, benchmark : Benchmarks]
    /\ fmt_out = [kind |-> "none"]

\* run_main_agent from the return of the summary to its own return, with
\* final_answer_extraction switched off
FormatOutput ==
    /\ fmt_out.kind = "none"
    /\ LET final_answer == IF fmt_in.text # <<>> THEN fmt_in.text ELSE NoAnswerText
           formatted == format_final_summary_and_log(final_answer)
       IN  fmt_out' =
               [kind |-> "returned",
                final_summary |-> formatted.final_summary,
                final_boxed_answer |->
                    IF fmt_in.benchmark = "browsecomp-zh" THEN formatted.final_summary
                    ELSE formatted.final_boxed_answer]
    /\ UNCHANGED <<fmt_in, runVars, interceptVars, channelVars, toolVars, sideVars>>

FormatSpec == InitFormat /\ [][FormatOutput]_vars

(***************************************************************************)
(* ToolSandboxWithStdio (manager_v2.py).  Callers call connect_to_server   *)
(* and cleanup concurrently; a coroutine gives way to the others only at   *)
(* an await.  An await on a server may raise: the exception leaves the     *)
(* "async with self.lock" block, which releases the lock.                  *)
(***************************************************************************)
SandboxCalls == 3      \* calls the callers of a sandbox make in all
SandboxFailures == 1   \* awaits of a sandbox that raise

\* the variables of the sandbox that its callers do not all change
SandboxIdle == UNCHANGED <<runVars, interceptVars, channelVars, toolVars, formatVars,
                           llmVars, sub_agent_llm_client, streams, serverVars>>

\* dict[name] = value on a dict kept as the sequence of its items
SetItem(items, name, value) ==
    IF \E k \in DOMAIN items : items[k].name = name
    THEN [k \in DOMAIN items |->
             IF items[k].name = name THEN [name |-> name, stack |-> value]
             ELSE items[k]]
    ELSE Append(items, [name |-> name, stack |-> value])

\* a caller calls connect_to_server or cleanup and waits for the lock
CallSandbox(c, op) ==
    /\ sb_pc[c] = "idle"
    /\ sb_env.calls > 0
    /\ sb_env' = [sb_env EXCEPT !.calls = @ - 1]
    /\ sb_pc' = [sb_pc EXCEPT ![c] = op]
    /\ UNCHANGED <<status, lock, stack_by_server, session_by_server, sb_i,
                   opened, closed>>
    /\ SandboxIdle

\* connect_to_server up to its first await: the lock is taken and the
\* status looked at (manager_v2.py:38-41)
ConnectEnter(c) ==
    /\ sb_pc[c] = "connect"
    /\ lock = Free
    /\ IF status # "pending"
       THEN /\ sb_pc' = [sb_pc EXCEPT ![c] = "idle"]
            /\ UNCHANGED <<lock, sb_i>>
       ELSE /\ sb_pc' = [sb_pc EXCEPT ![c] = "connect_loop"]
            /\ lock' = c
            /\ sb_i' = 1
    /\ UNCHANGED <<status, stack_by_server, session_by_server, opened, closed, sb_env>>
    /\ SandboxIdle

\* one round of the for loop of connect_to_server (manager_v2.py:41-55), and
\* the end of the call after the last round (56): the transport or the
\* session fails to open ("no_session"), initialize fails after the session
\* was opened ("no_initialize"), or the session is opened and kept ("ok")
ConnectRound(c, outcome) ==
    /\ sb_pc[c] = "connect_loop"
    /\ lock = c
    /\ LET name == server_configs[sb_i]
       IN  IF outcome = "ok"
           THEN /\ opened' = [opened EXCEPT ![name] = @ + 1]
                /\ stack_by_server' = SetItem(stack_by_server, name, "open")
                /\ session_by_server' = session_by_server \cup {name}
                /\ sb_env' = sb_env
                /\ IF sb_i < Len(server_configs)
                   THEN /\ sb_i' = sb_i + 1
                        /\ UNCHANGED <<status, lock, sb_pc>>
                   ELSE /\ status' = "running"
                        /\ lock' = Free
                        /\ sb_pc' = [sb_pc EXCEPT ![c] = "idle"]
                        /\ sb_i' = sb_i
           ELSE /\ sb_env.failures > 0
                /\ sb_env' = [sb_env EXCEPT !.failures = @ - 1]
                /\ opened' = IF outcome = "no_initialize"
                             THEN [opened EXCEPT ![name] = @ + 1] ELSE opened
                /\ lock' = Free
                /\ sb_pc' = [sb_pc EXCEPT ![c] = "idle"]
                /\ UNCHANGED <<status, stack_by_server, session_by_server, sb_i>>
    /\ closed' = closed
    /\ SandboxIdle

\* the end of cleanup once every stack has been closed (manager_v2.py:66-67)
CleanupEnd(c) ==
    /\ stack_by_server' = <<>>
    /\ status' = "stopped"
    /\ lock' = Free
    /\ sb_pc' = [sb_pc EXCEPT ![c] = "idle"]

\* cleanup up to its first await: the lock is taken, the status looked at,
\* the sessions forgotten (manager_v2.py:60-63)
CleanupEnter(c) ==
    /\ sb_pc[c] = "cleanup"
    /\ lock = Free
    /\ IF status # "running"
       THEN /\ sb_pc' = [sb_pc EXCEPT ![c] = "idle"]
            /\ UNCHANGED <<status, lock, stack_by_server, session_by_server, sb_i>>
       ELSE /\ session_by_server' = {}
            /\ sb_i' = 1
            /\ IF stack_by_server = <<>>
               THEN CleanupEnd(c)
               ELSE /\ sb_pc' = [sb_pc EXCEPT ![c] = "cleanup_loop"]
                    /\ lock' = c
                    /\ UNCHANGED <<status, stack_by_server>>
    /\ UNCHANGED <<opened, closed, sb_env>>
    /\ SandboxIdle

\* one round of the for loop of cleanup: await stack.aclose(), which pops
\* and leaves the contexts of the stack, so that a stack closed before has
\* nothing left to close; its exception, if any, comes after that
CleanupRound(c, raises) ==
    /\ sb_pc[c] = "cleanup_loop"
    /\ lock = c
    /\ LET item == stack_by_server[sb_i]
           closing == [stack_by_server EXCEPT ![sb_i].stack = "closed"]
       IN  /\ closed' = IF item.stack = "open"
                        THEN [closed EXCEPT ![item.name] = @ + 1] ELSE closed
           /\ IF raises
              THEN /\ sb_env.failures > 0
                   /\ sb_env' = [sb_env EXCEPT !.failures = @ - 1]
                   /\ stack_by_server' = closing
                   /\ lock' = Free
                   /\ sb_pc' = [sb_pc EXCEPT ![c] = "idle"]
                   /\ UNCHANGED <<status, sb_i>>
              ELSE /\ sb_env' = sb_env
                   /\ IF sb_i < Len(stack_by_server)
                      THEN /\ stack_by_server' = closing
                           /\ sb_i' = sb_i + 1
                           /\ UNCHANGED <<status, lock, sb_pc>>
                      ELSE /\ CleanupEnd(c)
                           /\ sb_i' = sb_i
    /\ UNCHANGED <<session_by_server, opened>>
    /\ SandboxIdle

NextSandbox ==
    \/ \E c \in Callers : \E op \in {"connect", "cleanup"} : CallSandbox(c, op)
    \/ \E c \in Callers : ConnectEnter(c)
    \/ \E c \in Callers : \E o \in {"ok", "no_session", "no_initialize"} :
          ConnectRound(c, o)
    \/ \E c \in Callers : CleanupEnter(c)
    \/ \E c \in Callers : \E raises \in BOOLEAN : CleanupRound(c, raises)

InitSandboxCalls ==
    /\ InitRun(IdleConfig, Budget(0, 0, 0, 0))
    /\ InitInterceptor(<<>>) /\ InitChannel /\ InitToolManager /\ InitFormatter
    /\ InitLlm /\ InitClients /\ InitStreams /\ InitServer
    /\ InitSandbox(SandboxCalls, SandboxFailures)

SandboxSpec == InitSandboxCalls /\ [][NextSandbox]_vars

(***************************************************************************)
(* The MCP server (mcp_server/server.py): run_agent(wait=False) starts     *)
(* run_in_background as an asyncio task; get_task_status and cancel_task   *)
(* are called while it runs.  A tool handler without an await is one step. *)
(***************************************************************************)
\* the variables the server leaves alone
ServerIdle == UNCHANGED <<runVars, interceptVars, channelVars, toolVars, formatVars,
                          llmVars, sub_agent_llm_client, streams, sandboxVars>>

\* get_task_status: the progress entry updated with the result entry, else
\* the result entry, else what the log directory gives (server.py:279-300)
get_task_status(t) ==
    IF task_progress[t] # Absent
    THEN IF task_results[t] # Absent THEN task_results[t] ELSE task_progress[t]
    ELSE IF task_results[t] # Absent THEN task_results[t]
    ELSE "not_found"

\* run_agent(task_id = t, wait = False) (server.py:137-187)
RunAgent(t) ==
    /\ bg_pc[t] = "none"
    /\ task_progress' = [task_progress EXCEPT ![t] = "initializing"]
    /\ bg_pc' = [bg_pc EXCEPT ![t] = "created"]
    /\ running_tasks' = running_tasks \cup {t}
    /\ UNCHANGED <<task_results, cancel_asked, cancel_replies, polled>>
    /\ ServerIdle

\* run_in_background runs up to "await _execute_task" (server.py:155-160);
\* a task cancelled before its first step never runs
BackgroundStart(t) ==
    /\ bg_pc[t] = "created"
    /\ IF t \in cancel_asked
       THEN /\ bg_pc' = [bg_pc EXCEPT ![t] = "cancelled"]
            /\ UNCHANGED task_progress
       ELSE /\ bg_pc' = [bg_pc EXCEPT ![t] = "executing"]
            /\ task_progress' = [task_progress EXCEPT ![t] = "running"]
    /\ UNCHANGED <<task_results, running_tasks, cancel_asked, cancel_replies, polled>>
    /\ ServerIdle

\* _execute_task returns its dict, whose status is "completed" or, when
\* the pipeline raised an Exception, "failed" (server.py:162-166, 177)
BackgroundFinish(t, outcome) ==
    /\ bg_pc[t] = "executing"
    /\ task_progress' = [task_progress EXCEPT ![t] = "completed"]
    /\ task_results' = [task_results EXCEPT ![t] = outcome]
    /\ running_tasks' = running_tasks \ {t}
    /\ bg_pc' = [bg_pc EXCEPT ![t] = "done"]
    /\ UNCHANGED <<cancel_asked, cancel_replies, polled>>
    /\ ServerIdle

\* the CancelledError is raised at the await: it is no Exception, so it
\* passes both except clauses, and only the finally clause runs
\* (server.py:167-177, 234)
BackgroundCancelled(t) ==
    /\ bg_pc[t] = "executing"
    /\ t \in cancel_asked
    /\ running_tasks' = running_tasks \ {t}
    /\ bg_pc' = [bg_pc EXCEPT ![t] = "cancelled"]
    /\ UNCHANGED <<task_progress, task_results, cancel_asked, cancel_replies, polled>>
    /\ ServerIdle

\* cancel_task(t) (server.py:352-360)
CancelTask(t) ==
    /\ IF t \notin running_tasks
       THEN UNCHANGED <<running_tasks, cancel_asked, cancel_replies>>
       ELSE /\ cancel_asked' = cancel_asked \cup {t}
            /\ running_tasks' = running_tasks \ {t}
            /\ cancel_replies' = cancel_replies \cup {t}
    /\ UNCHANGED <<task_progress, task_results, bg_pc, polled>>
    /\ ServerIdle

\* a client polls get_task_status(t)
GetTaskStatus(t) ==
    /\ polled' = [polled EXCEPT ![t] = get_task_status(t)]
    /\ UNCHANGED <<task_progress, task_results, running_tasks, bg_pc, cancel_asked,
                   cancel_replies>>
    /\ ServerIdle

NextServer ==
    \/ \E t \in TaskIds : RunAgent(t)
    \/ \E t \in TaskIds : BackgroundStart(t)
    \/ \E t \in TaskIds : \E o \in {"completed", "failed"} : BackgroundFinish(t, o)
    \/ \E t \in TaskIds : BackgroundCancelled(t)
    \/ \E t \in TaskIds : CancelTask(t)
    \/ \E t \in TaskIds : GetTaskStatus(t)

InitServerCalls ==
    /\ InitRun(IdleConfig, Budget(0, 0, 0, 0))
    /\ InitInterceptor(<<>>) /\ InitChannel /\ InitToolManager /\ InitFormatter
    /\ InitLlm /\ InitClients /\ InitStreams /\ InitSandbox(0, 0)
    /\ InitServer

ServerSpec == InitServerCalls /\ [][NextServer]_vars

(***************************************************************************)
(* _handle_llm_call_with_logging taken alone: one call for every outcome   *)
(* of the client, every response of up to LlmBlocks blocks and a history   *)
(* of a first or of a later turn.                                          *)
(***************************************************************************)
LlmBlocks == 2

LlmHistories ==
    {<<UserTask>>,
     <<UserTask, AssistantMsg(<<>>, "text"), ToolResultsMsg(<<>>)>>}

InitLlmCall ==
    /\ InitRun(IdleConfig, Budget(0, 0, 0, 0))
    /\ InitInterceptor(<<>>)
    /\ InitChannel
    /\ InitToolManager
    /\ InitFormatter
    /\ InitOther
    /\ \E o \in LLMOutcomes : \E h \in LlmHistories :
          \E b \in (IF o = "ok" THEN Responses(ServerNames, LlmBlocks) ELSE {<<>>}) :
              llm_in = [outcome |-> o, blocks |-> b, history |-> h]
    /\ llm_out = [kind |-> "none"]

\* the call: whatever create_message does, the except clauses turn it into a
\* returned triple
CallLlm ==
    /\ llm_out.kind = "none"
    /\ LET r == handle_llm_call(llm_in.history, llm_in.outcome, llm_in.blocks, uuid + 1)
       IN  llm_out' = [kind |-> "returned", text |-> r.text,
                       should_break |-> r.should_break, info |-> r.info,
                       history |-> r.history, emitted |-> r.emitted]
    /\ UNCHANGED <<llm_in, runVars, interceptVars, channelVars, toolVars, formatVars,
                   otherVars>>

LlmSpec == InitLlmCall /\ [][CallLlm]_vars

(***************************************************************************)
(* Properties of the event stream.                                         *)
(***************************************************************************)
\* the positions of the events of one kind
Positions(event) == {i \in DOMAIN events : events[i].event = event}

\* run_main_agent is over: it returned or an exception left it
RunOver == ret.kind # "none"

\* the agent ids open after a prefix of the stream, innermost last; ok is
\* FALSE once an end_of_agent does not carry the id of the innermost open agent
RECURSIVE AgentNesting(_)
AgentNesting(evs) ==
    IF evs = <<>> THEN [open |-> <<>>, ok |-> TRUE]
    ELSE LET before == AgentNesting(Pop(evs))
             e == Last(evs)
         IN  IF e.event = "start_of_agent"
             THEN [open |-> Append(before.open, e.id), ok |-> before.ok]
             ELSE IF e.event = "end_of_agent"
             THEN IF before.open # <<>> /\ Last(before.open) = e.id
                  THEN [open |-> Pop(before.open), ok |-> before.ok]
                  ELSE [open |-> before.open, ok |-> FALSE]
             ELSE before

\* C1: every start_of_agent is followed by exactly one end_of_agent with its
\* agent_id, no agent_id is carried by two end_of_agent events, and the pairs
\* are properly nested -- also when the dispatched sub-agent run raises.
C1_AgentEventsPaired ==
    /\ \A i, j \in Positions("end_of_agent") : events[i].id = events[j].id => i = j
    /\ AgentNesting(events).ok
    /\ ret.kind = "returned" => AgentNesting(events).open = <<>>

\* C2: a run that emitted start_of_workflow and is over has emitted exactly
\* one end_of_workflow with the workflow_id of the start, and nothing but the
\* end-of-stream sentinel is put on the channel after it.
C2_WorkflowEnded ==
    /\ \A i \in Positions("end_of_workflow") :
          \A j \in DOMAIN events : j > i => events[j] = Sentinel
    /\ (RunOver /\ Positions("start_of_workflow") # {}) =>
          \E i \in Positions("end_of_workflow") :
             /\ Positions("end_of_workflow") = {i}
             /\ \E k \in Positions("start_of_workflow") :
                   k < i /\ events[k].id = events[i].id

\* C5: no tool manager, of the main agent or of a sub-agent, receives
\* execute_tool_call with a server_name that begins with "agent-".
C5_NoAgentCallInRegistry ==
    \A i \in DOMAIN registry : ~StartsWithAgent(registry[i].server_name)

(***************************************************************************)
(* Properties of the agent loops.                                          *)
(***************************************************************************)
\* max_turns of frame f as configured
ConfiguredMaxTurns(f) == IF f = "main" THEN cfg.main_max_turns ELSE cfg.sub_max_turns

\* C6: in a loop with max_turns >= 0, turn_count never exceeds max_turns and
\* the loop issues at most max_turns turn LLM calls.
C6_TurnsBounded ==
    \A f \in Frames :
        ConfiguredMaxTurns(f) >= 0 =>
            /\ turn_count[f] <= ConfiguredMaxTurns(f)
            /\ llm_calls[f].turn <= ConfiguredMaxTurns(f)

\* C6's case: a loop that used its last turn on tool calls and is back at the
\* loop test
C6_Witness ==
    \E f \in Frames :
        /\ ConfiguredMaxTurns(f) >= 1
        /\ pc[f] = "loop"
        /\ turn_count[f] = ConfiguredMaxTurns(f)
        /\ llm_calls[f].turn = ConfiguredMaxTurns(f)
        /\ Last(message_history[f]).kind = "tool_results"

\* frame f is in a turn whose tool calls are held in tool_calls[f]
InDispatchPhase(f) == pc[f] \in {"dispatch", "in_sub", "merge"}

\* frame f is back at the loop test right after the merge of a turn
JustMerged(f) ==
    /\ pc[f] = "loop"
    /\ message_history[f] # <<>>
    /\ Last(message_history[f]).kind = "tool_results"

\* the argument texts of the results collected so far in the turn of frame f
DispatchedRaw(f) == [i \in 1..Len(results[f]) |-> results[f][i].content.text.arg]

\* the turn of frame f holds more valid calls than the per-turn cap
CappedTurn(f) ==
    /\ InDispatchPhase(f)
    /\ Len(tool_calls[f].valid) > cfg.max_tool_calls_per_turn

LoopPhase(f) == pc[f] \in {"loop", "dispatch", "in_sub", "merge", "loop_end"}

\* the calls an assistant message leads to: the first max_tool_calls valid ones
TurnCalls(msg) ==
    Selected(parse_llm_response_for_tool_calls(msg.body), cfg.max_tool_calls_per_turn)

\* a part of a merged message that carries the result of a dispatched call
IsToolPart(p) == p.tag \in {"valid", "plain"} /\ p.text.server_name # "re-think"

\* a part of a merged message that carries the re-think result
IsReThinkPart(p) == p.tag \in {"failed", "plain"} /\ p.text.server_name = "re-think"

ToolParts(parts) == SelectSeq(parts, IsToolPart)

PartMatchesCall(p, call) ==
    /\ p.text.arg = call.arguments.raw
    /\ p.text.server_name = call.server_name
    /\ p.text.tool_name = call.tool_name

\* C7: while a loop runs, every assistant message that led to K >= 1
\* dispatched calls is followed, once its turn is over, by exactly one user
\* message that holds the K results in call order; the message after that one,
\* if any, is the next assistant message.
C7_OneResultMessage ==
    \A f \in Frames :
        LoopPhase(f) =>
            \A i \in DOMAIN message_history[f] :
                LET h == message_history[f]
                    calls == TurnCalls(h[i])
                IN  (/\ h[i].role = "assistant"
                     /\ Len(calls) >= 1
                     /\ (i < Len(h) \/ pc[f] \in {"loop", "loop_end"})) =>
                        /\ i < Len(h)
                        /\ h[i + 1].role = "user"
                        /\ h[i + 1].kind = "tool_results"
                        /\ Len(ToolParts(h[i + 1].body)) = Len(calls)
                        /\ \A k \in DOMAIN calls :
                              PartMatchesCall(ToolParts(h[i + 1].body)[k], calls[k])
                        /\ i + 2 <= Len(h) => h[i + 2].role = "assistant"

\* C7's case: a turn with two dispatched calls has been merged
C7_Witness ==
    \E f \in Frames :
        /\ JustMerged(f)
        /\ Len(message_history[f]) >= 3
        /\ Len(TurnCalls(message_history[f][Len(message_history[f]) - 1])) = 2
        /\ Len(ToolParts(Last(message_history[f]).body)) = 2

\* the step is a dispatch by frame f that failed: the tool manager answered
\* with an error or raised, or the sub-agent run raised
FailedDispatch(f) ==
    \/ /\ Len(registry') = Len(registry) + 1
       /\ Last(registry').manager = f
       /\ Last(registry').outcome \in {"error", "raise"}
    \/ /\ f = "main"
       /\ pc["main"] = "dispatch"
       /\ StartsWithAgent(CurrentCall("main").server_name)
       /\ ~ConfiguredSubAgent(CurrentCall("main").server_name)
       /\ call_idx' # call_idx

\* C8: a failed dispatch leaves a result with error set for that call, the
\* run does not end with an exception, and the loop goes on with the next call
\* of the turn (or with the merge after the last one); the merged user message
\* holds every result with error set.
C8_FailuresBecomeResults ==
    [][\A f \in Frames :
          /\ FailedDispatch(f) =>
                /\ Len(results'[f]) = Len(results[f]) + 1
                /\ Last(results'[f]).content.text.failed
                /\ Last(results'[f]).content.text.arg = CurrentCall(f).arguments.raw
                /\ call_idx'[f] = call_idx[f] + 1
                /\ pc'[f] = AfterCall(f)
                /\ ret' = ret
          /\ JustMerged(f)' =>
                \A i \in DOMAIN results'[f] :
                    results'[f][i].content.text.failed =>
                        \E k \in DOMAIN Last(message_history'[f]).body :
                            LET part == Last(message_history'[f]).body[k]
                            IN  /\ part.tag \in {"valid", "plain"}
                                /\ part.text = results'[f][i].content.text
      ]_vars

\* C8's case: the first call of a turn raised, the second call ran, and the
\* turn has been merged
C8_Witness ==
    \E f \in Frames :
        /\ JustMerged(f)
        /\ Len(results[f]) = 2
        /\ results[f][1].content.text.failed
        /\ ~results[f][2].content.text.failed
        /\ \E i \in DOMAIN registry : registry[i].outcome = "raise"

\* the blocks of the assistant message of the turn frame f is in or has just
\* merged
TurnBlocks(f) ==
    IF JustMerged(f)
    THEN message_history[f][Len(message_history[f]) - 1].body
    ELSE Last(message_history[f]).body

UnparseableArguments(b) == [error |-> "Failed to parse arguments", raw |-> b.arg]

Assistants(history) ==
    Cardinality({i \in DOMAIN history : history[i].role = "assistant"})

\* C4: SummaryWithRetry ends after finitely many LLM calls: each attempt
\* makes at most 5 calls and removes an assistant message of the entry
\* history, so at most 5 * (A + 1) calls are made for an entry history with A
\* assistant messages; what it returns is the generated text or the literal.
C4_SummaryTerminates ==
    \A f \in Frames :
        /\ llm_calls[f].summary <= NetworkRetries * (Assistants(entry[f]) + 1)
        /\ pc[f] = "sum_done" => final_answer_text[f] \in {"text", ErrorLiteral}

\* C3: with max_turns >= 0 the run is over after at most max_turns turn LLM
\* calls and the summary calls of at most max_turns + 1 attempts; when it
\* returns, the summary is not empty and the stream ends with end_of_workflow
\* and the end-of-stream sentinel.
C3_RunReturns ==
    /\ cfg.main_max_turns >= 0 =>
          llm_calls["main"].turn + llm_calls["main"].summary
             <= cfg.main_max_turns + NetworkRetries * (cfg.main_max_turns + 1)
    /\ ret.kind = "returned" =>
          /\ ret.summary # ""
          /\ Len(events) >= 2
          /\ events[Len(events) - 1].event = "end_of_workflow"
          /\ Last(events) = Sentinel

(***************************************************************************)
(* Properties of the interceptor.                                          *)
(***************************************************************************)
\* C11: whatever the text and its chunking, the text forwarded so far never
\* contains a forbidden token.
C11_NoTokenForwarded == ~is_unbreakable_string(forwarded)

\* C12: once the last delta has been processed, the text forwarded over the
\* chunked stream is what one process(whole, True) call of a fresh
\* interceptor returns.
C12_ChunkingInvariant ==
    finished => forwarded = process(<<>>, whole, TRUE).result.text

\* frame f is at the entry of its summary phase: the loop has been left and
\* no summary prompt has been appended yet
AtSummaryEntry(f) == pc[f] = "sum_prompt" /\ message_history[f] = entry[f]

\* the loop of frame f ended because the last response held text and no
\* tool call at all
EndedByAnswer(f) ==
    /\ entry[f] # <<>>
    /\ Last(entry[f]).role = "assistant"
    /\ Last(entry[f]).kind = "text"
    /\ NoToolUse(parse_llm_response_for_tool_calls(Last(entry[f]).body))

\* C13: at the entry of the summary phase task_failed is true exactly when
\* the loop ended by turn exhaustion or by a failed LLM call; a loop that
\* ended on a response without tool calls enters with task_failed false.
C13_FailedIffExhaustedOrLLMFailure ==
    \A f \in Frames : AtSummaryEntry(f) => (task_failed[f] <=> ~EndedByAnswer(f))

\* the position of the summary prompt appended last to history h (0: none)
LastPromptAt(h) ==
    LET at == {i \in 1..Len(h) : h[i].kind = "summary"}
    IN  IF at = {} THEN 0 ELSE CHOOSE i \in at : \A j \in at : j <= i

\* the history the running attempt started from: what precedes its prompt,
\* with the message the prompt pulled in put back
AttemptStart(h) ==
    LET i == LastPromptAt(h)
    IN  IF i = 0 THEN h ELSE SubSeq(h, 1, i - 1) \o h[i].body

\* history start without its most recent assistant message and the
\* tool-result user message paired with it
WithoutLastPair(start) ==
    IF /\ Len(start) >= 2
       /\ Last(start).role = "user"
       /\ Pop(start) # <<>> /\ Last(Pop(start)).role = "assistant"
    THEN Pop(Pop(start))
    ELSE IF start # <<>> /\ Last(start).role = "assistant" THEN Pop(start)
    ELSE start

\* a step of frame f in which a summary call fails with context-limit and
\* another attempt follows: no show_error event, the history of the call is
\* pruned as it stands
ContextLimitRetry(f) ==
    /\ pc[f] = "sum_call" /\ pc'[f] = "sum_prompt"
    /\ events' = events
    /\ message_history'[f] = Pruned(message_history[f])

\* a step of frame f that appends a summary prompt after a failed attempt
LaterSummaryPrompt(f) ==
    /\ pc[f] = "sum_prompt" /\ pc'[f] = "sum_call"
    /\ message_history[f] # entry[f]

\* C14: when a summary attempt fails with context-limit, the next attempt
\* starts from the history the failed one started from without its most recent
\* assistant message and that message's tool-result user message, nothing
\* else is changed, and every later summary prompt is one for a failed task.
C14_FailedAttemptRemovesOnePair ==
    [][\A f \in Frames :
         /\ ContextLimitRetry(f) =>
               /\ message_history'[f] = WithoutLastPair(AttemptStart(message_history[f]))
               /\ task_failed'[f]
         /\ LaterSummaryPrompt(f) => Last(message_history'[f]).task_failed]_vars

\* the start_of_llm and end_of_llm events of the stream, in order
LlmEvents ==
    SelectSeq(events, LAMBDA e : e.event \in {"start_of_llm", "end_of_llm"})

\* C15: start_of_llm and end_of_llm alternate, beginning with start_of_llm;
\* each end_of_llm names the agent of the start_of_llm before it, and when
\* the run is over no start_of_llm is left without its end_of_llm.
C15_LlmEventsAlternate ==
    /\ \A i \in DOMAIN LlmEvents :
          IF i % 2 = 1 THEN LlmEvents[i].event = "start_of_llm"
          ELSE /\ LlmEvents[i].event = "end_of_llm"
               /\ LlmEvents[i].name = LlmEvents[i - 1].name
    /\ RunOver => Len(LlmEvents) % 2 = 0

\* the usage_info events with scene tool_call
ToolCallUsage ==
    {i \in Positions("usage_info") : events[i].info = "tool_call"}

\* the calls routed to a sub-agent: each one starts an agent that is neither
\* the main agent nor the reporter
RoutedToSubAgent ==
    {i \in Positions("start_of_agent") : events[i].name \notin {"main", "reporter"}}

\* C16: when the run is over, there are as many usage_info events with scene
\* tool_call as valid tool calls were dispatched: the calls handed to a tool
\* manager, whatever their outcome, and the calls routed to a sub-agent.
C16_UsagePerDispatchedCall ==
    RunOver => Cardinality(ToolCallUsage) = Len(registry) + Cardinality(RoutedToSubAgent)

\* the issue events of dispatched calls: the tool_call events that carry the
\* arguments of a call (the "Partial Summary" event of a sub-agent is none)
ToolIssues ==
    {i \in Positions("tool_call") :
        events[i].info = "tool_input" /\ events[i].name # "Partial Summary"}

\* the tool_call events that carry tool_call_id id
WithToolCallId(id) == {k \in Positions("tool_call") : events[k].id = id}

\* no frame is in the middle of the calls of a turn
NoTurnDispatching == \A f \in Frames : pc[f] # "dispatch"

\* C17: once the calls of a turn are done, every call handed to a tool
\* manager has its issue event, and every issue event shares its
\* tool_call_id with exactly one other tool_call event, the result event,
\* which comes later.
C17_IssueAndResultPaired ==
    NoTurnDispatching =>
        /\ Cardinality(ToolIssues) = Len(registry)
        /\ \A i \in ToolIssues :
              /\ Cardinality(WithToolCallId(events[i].id)) = 2
              /\ \E j \in WithToolCallId(events[i].id) :
                    j > i /\ events[j].info = "result"

\* SummaryWithRetry of frame f has returned a generated summary
SummaryGenerated(f) ==
    pc[f] = "sum_done" /\ final_answer_text[f] # ErrorLiteral

\* C18: whenever SummaryWithRetry returns a generated summary and not the
\* error literal, the history holds at least 2 messages, whatever the history
\* at entry was.
C18_HistoryAtLeastTwo ==
    \A f \in Frames : SummaryGenerated(f) => Len(message_history[f]) >= 2

\* a summary generated from an entry history that holds the initial user
\* message only
C18_Witness ==
    \E f \in Frames :
        /\ SummaryGenerated(f)
        /\ entry[f] = <<UserTask>>
        /\ Len(message_history[f]) = 2

\* the items put on the channel so far, in order
PutSoFar == SubSeq(events, 1, put_count)

SentinelPuts == {i \in 1..put_count : events[i] = Sentinel}

\* C20: the sentinel is never put twice; once put it is the last item put,
\* and the item put before it is end_of_workflow; and when the run is over
\* and has put all it emitted, the sentinel has been put.
C20_SentinelOnceAndLast ==
    /\ Cardinality(SentinelPuts) <= 1
    /\ \A i \in SentinelPuts :
          /\ i = put_count
          /\ i > 1 /\ events[i - 1].event = "end_of_workflow"
    /\ (RunOver /\ ~Producing) => SentinelPuts # {}

\* C21: when the run was cancelled, the CancelledError has left
\* run_main_agent and the end-of-stream sentinel has been put on the channel.
C21_CancelClosesStream ==
    ret.kind = "cancelled" =>
        /\ \A f \in Frames : pc[f] \in {"idle", "cancelled"}
        /\ \E i \in 1..put_count : events[i] = Sentinel

\* the phases in which frame f holds the history of a session
SessionPhases ==
    {"prompt", "loop", "dispatch", "in_sub", "merge", "loop_end",
     "sum_prompt", "sum_call", "sum_done", "returned"}

\* C22: in every state of a session, the summary phase included, the history
\* is not empty and its first message is a user message.
C22_HistoryStartsWithUser ==
    \A f \in Frames :
        pc[f] \in SessionPhases =>
            /\ message_history[f] # <<>>
            /\ message_history[f][1].role = "user"

\* the malformed calls of the turn frame f has just merged
TurnBadCalls(f) == UnclosedCalls(TurnBlocks(f))

\* C23: after a turn with m >= 1 malformed calls the merged user message
\* holds m re-think results, the i-th quoting the error of the i-th
\* malformed call.
C23_ReThinkPerMalformedCall ==
    \A f \in Frames :
        (JustMerged(f) /\ Len(TurnBadCalls(f)) >= 1) =>
            LET rethinks == SelectSeq(Last(message_history[f]).body, IsReThinkPart)
            IN  /\ Len(rethinks) = Len(TurnBadCalls(f))
                /\ \A i \in DOMAIN rethinks :
                      rethinks[i].text.content = TurnBadCalls(f)[i].error

\* the results of a list whose id is / is not "FAILED", in list order
FailedOf(info) == SelectSeq(info, LAMBDA x : x.id = "FAILED")
ValidOf(info) == SelectSeq(info, LAMBDA x : x.id # "FAILED")

\* the update_message_history call of the main loop has returned
MergeReturned == pc["main"] = "loop" /\ turn_count["main"] = 1

\* C24: update_message_history appends exactly one user message.  With at
\* most one result its text is the text of that result; otherwise it begins
\* with the "I have processed K ..." line, or with the "You made too many
\* tool calls ... K ..." line when exceeded is true, K being the number of
\* valid results, followed by the valid results numbered in call order and
\* then by the failed results numbered in order.
C24_MergedText ==
    MergeReturned =>
        LET h == message_history["main"]
            info == results["main"]
            K == Len(ValidOf(info))
            F == Len(FailedOf(info))
            body == Last(h).body
        IN  /\ Len(h) = 3
            /\ SubSeq(h, 1, 2) = <<UserTask, AssistantMsg(<<>>, "text")>>
            /\ h[3].role = "user"
            /\ IF K + F <= 1
               THEN body = [i \in 1..(K + F) |-> Part("plain", 0, info[i].content.text)]
               ELSE /\ Len(body) = 1 + K + F
                    /\ body[1] = Part(IF tool_calls_exceeded["main"]
                                      THEN "too_many" ELSE "processed", K, "")
                    /\ \A i \in 1..K :
                          body[1 + i] = Part("valid", i, ValidOf(info)[i].content.text)
                    /\ \A j \in 1..F :
                          body[1 + K + j] = Part("failed", j, FailedOf(info)[j].content.text)

\* a merge of two valid results and a failed one with exceeded true
C24_Witness ==
    /\ MergeReturned
    /\ tool_calls_exceeded["main"]
    /\ Len(ValidOf(results["main"])) = 2
    /\ Len(FailedOf(results["main"])) = 1
    /\ Last(message_history["main"]).body[1].tag = "too_many"

\* the call of execute_tool_call is over, by a return or by an exception
CallOver == tm_pc = "done"

\* the call is a scrape of a url on a restricted host
RestrictedScrape ==
    /\ tm_call.tool_name = "scrape"
    /\ tm_call.arguments.type = "dict"
    /\ tm_call.arguments.has_url
    /\ Len(tm_call.arguments.url) >= 2
    /\ tm_call.arguments.url[1] = "huggingface.co"
    /\ tm_call.arguments.url[2] \in {"datasets", "spaces"}

\* C25: a scrape call whose url targets huggingface.co/datasets or
\* huggingface.co/spaces, made on a server configured with stdio or sse
\* parameters, returns the policy refusal and no call_tool request (nor any
\* other fetch of the url) is sent for it.
C25_RestrictedScrapeNotSent ==
    (/\ CallOver
     /\ RestrictedScrape
     /\ get_server_params(tm_call.server_name) \in {"stdio", "sse"}) =>
        /\ tm_ret = ReturnedResult(tm_call, Refusal)
        /\ \A i \in DOMAIN tm_wire : tm_wire[i].op \notin {"call_tool", "markitdown"}

C26_BoxedAnswerOrSentinel ==
    fmt_out.kind = "returned" =>
        fmt_out.final_boxed_answer =
            IF BoxedMatches(fmt_in.text) # <<>> THEN Last(BoxedMatches(fmt_in.text))
            ELSE NoAnswerText

\* the events of the stream that follow position i, by kind and name
Following(i) ==
    [j \in 1..(Len(events) - i) |-> <<events[i + j].event, events[i + j].name>>]

IsPrefix(s, t) == Len(s) <= Len(t) /\ s = SubSeq(t, 1, Len(s))

MainEndUsages ==
    SelectSeq(events, LAMBDA e : e.event = "usage_info" /\ e.info = "main_agent_end")

\* C27: with main_agent.max_turns = 0 the main agent makes no turn LLM call
\* and dispatches no tool call (the only tool_call events are the show_error
\* reports of failed summary calls); start_of_agent(main) is followed directly by
\* the closing of the main agent and start_of_agent(reporter); and the stream
\* of a run that returned holds exactly one usage_info event with scene
\* main_agent_end (none before the return).
C27_ZeroTurnsGoesToSummary ==
    cfg.main_max_turns = 0 =>
        /\ llm_calls["main"].turn = 0
        /\ registry = <<>>
        /\ pc["sub"] = "idle"
        /\ \A i \in DOMAIN events :
              events[i].event = "tool_call" => events[i].name = "show_error"
        /\ \A i \in DOMAIN events :
              (events[i].event = "start_of_agent" /\ events[i].name = "main") =>
                  \/ IsPrefix(Following(i),
                              <<(<<"start_of_llm", "main">>), (<<"end_of_llm", "main">>),
                                (<<"end_of_agent", "main">>),
                                (<<"start_of_agent", "reporter">>)>>)
                  \/ /\ Len(Following(i)) >= 4
                     /\ Following(i)[4] = <<"start_of_agent", "reporter">>
        /\ Len(MainEndUsages) = IF ret.kind = "returned" THEN 1 ELSE 0

\* a run with max_turns = 0 has gone through its summary call and returned
C27_Witness ==
    /\ cfg.main_max_turns = 0
    /\ ret.kind = "returned"
    /\ llm_calls["main"].summary >= 1
    /\ Len(MainEndUsages) = 1

\* the start_of_llm / end_of_llm events of the reporter
ReporterLlm(event) == {i \in Positions(event) : events[i].name = "reporter"}

\* the start_of_llm events that follow the Partial Summary mark of the
\* sub-agent
SubSummaryLlmStarts ==
    {i \in Positions("start_of_llm") :
        \E k \in Positions("tool_call") : events[k].name = "Partial Summary" /\ k < i}

\* C28: every attempted summary LLM call has its own start_of_llm and
\* end_of_llm: when the summary phase of the main agent is over, the number of
\* start_of_llm(reporter) events, and after the return the number of
\* end_of_llm(reporter) events, equals the number of summary LLM calls
\* attempted; when the summary phase of a sub-agent is over, the number of
\* start_of_llm events emitted in it equals its number of summary LLM calls.
C28_LlmPairPerSummaryCall ==
    /\ pc["main"] = "sum_done" =>
          Cardinality(ReporterLlm("start_of_llm")) = llm_calls["main"].summary
    /\ ret.kind = "returned" =>
          /\ Cardinality(ReporterLlm("start_of_llm")) = llm_calls["main"].summary
          /\ Cardinality(ReporterLlm("end_of_llm")) = llm_calls["main"].summary
    /\ pc["sub"] = "sum_done" =>
          Cardinality(SubSummaryLlmStarts) = llm_calls["sub"].summary

\* the reporter agent is open at position i of the stream
ReporterOpenAt(i) ==
    \E j \in 1..(i - 1) :
        /\ events[j].event = "start_of_agent" /\ events[j].name = "reporter"
        /\ \A k \in (j + 1)..(i - 1) :
              ~(events[k].event = "end_of_agent" /\ events[k].name = "reporter")

SummaryAttempt(f) == llm_calls'[f].summary = llm_calls[f].summary + 1

FailedTurnCall(f) ==
    /\ llm_calls'[f].turn = llm_calls[f].turn + 1
    /\ task_failed'[f]
    /\ \/ message_history'[f] = message_history[f]
       \/ Last(message_history'[f]).kind = "empty"

SelectedCalls(f) == Selected(tool_calls[f], cfg.max_tool_calls_per_turn)

\* result k of the turn of frame f is the result of selected call k
ResultOfCall(f, k) ==
    LET text == results[f][k].content.text
        call == SelectedCalls(f)[k]
    IN  /\ text.server_name = call.server_name
        /\ text.tool_name = call.tool_name
        /\ text.arg = call.arguments.raw

\* C33: while a turn dispatches, call i is dispatched when exactly the
\* results of calls 1..i-1 are there, in the order of the calls; a
\* sub-agent session is in progress only while the main agent waits in the
\* dispatch of that call, so nothing else of the run executes meanwhile;
\* when all calls are done there is one result per call in list order, and
\* the merged message is built from the results in that order.
C33_SequentialDispatch ==
    /\ pc["sub"] # "idle" => pc["main"] = "in_sub"
    /\ \A f \in Frames :
        /\ pc[f] \in {"dispatch", "in_sub"} =>
              /\ call_idx[f] <= Len(SelectedCalls(f))
              /\ Len(results[f]) = call_idx[f] - 1
              /\ \A k \in 1..Len(results[f]) : ResultOfCall(f, k)
        /\ pc[f] = "merge" =>
              /\ Len(results[f]) = Len(SelectedCalls(f))
              /\ \A k \in 1..Len(results[f]) : ResultOfCall(f, k)
        /\ JustMerged(f) =>
              /\ Len(results[f]) >= Len(SelectedCalls(f))
              /\ \A k \in 1..Len(SelectedCalls(f)) : ResultOfCall(f, k)
              /\ Last(message_history[f]).body =
                    MergedParts(results[f], tool_calls_exceeded[f])

\* the second call of a turn, a sub-agent session, is in progress after the
\* first call, a tool call, has given its result
C33_Witness ==
    /\ pc["main"] = "in_sub"
    /\ call_idx["main"] = 2
    /\ Len(results["main"]) = 1
    /\ SelectedCalls("main")[1].server_name # SelectedCalls("main")[2].server_name

\* the step in which run_sub_agent returns to the dispatch of the main agent
SubAgentReturns == pc["sub"] = "sum_done" /\ pc'["sub"] = "idle"

UsagesAt(scene) ==
    SelectSeq(events, LAMBDA e : e.event = "usage_info" /\ e.info = scene)

\* C35: the stream of a run that returned holds exactly one usage_info with
\* scene main_agent_end, placed after end_of_agent(reporter) and before
\* end_of_workflow, and one usage_info with scene sub_agent_end exactly when
\* the sub-agents have a client of their own; before the return it holds
\* neither.
C35_UsageAtEnd ==
    IF ret.kind = "returned"
    THEN /\ Len(UsagesAt("main_agent_end")) = 1
         /\ UsagesAt("main_agent_end")[1].name = "main"
         /\ Len(UsagesAt("sub_agent_end")) =
               (IF sub_agent_llm_client # LlmClient THEN 1 ELSE 0)
         /\ \E i, j, k \in DOMAIN events :
               /\ i < j /\ j < k
               /\ events[i].event = "end_of_agent" /\ events[i].name = "reporter"
               /\ events[j].event = "usage_info" /\ events[j].info = "main_agent_end"
               /\ events[k].event = "end_of_workflow"
               /\ j = i + 1
               /\ \A m \in (j + 1)..(k - 1) :
                     /\ events[m].event = "usage_info"
                     /\ events[m].info = "sub_agent_end"
                     /\ events[m].name = "sub_agent"
    ELSE /\ UsagesAt("main_agent_end") = <<>>
         /\ UsagesAt("sub_agent_end") = <<>>

\* a run with a client of its own for the sub-agents returned after a
\* sub-agent session
C35_Witness ==
    /\ ret.kind = "returned"
    /\ sub_agent_llm_client = OwnSubClient
    /\ llm_calls["sub"].summary > 0
    /\ UsagesAt("sub_agent_end") # <<>>

\* the length of the longest unbreakable string
LongestUnbreakable ==
    CHOOSE l \in {Len(unbreakable_strings[n]) : n \in DOMAIN unbreakable_strings} :
        \A n \in DOMAIN unbreakable_strings : Len(unbreakable_strings[n]) <= l

\* C36: while the stream is fed with is_last = false, a buffer that holds no
\* complete unbreakable string is empty or a strict prefix of one, so it is
\* shorter than the longest of them.
C36_RetainedIsStrictPrefix ==
    (~finished /\ ~is_unbreakable_string(buffer)) =>
        /\ IsDangerous(buffer)
        /\ Len(buffer) <= LongestUnbreakable - 1

\* process has forwarded a part of the text and holds back a non-empty
\* prefix of the token
C36_Witness ==
    /\ ~finished
    /\ forwarded # <<>>
    /\ buffer # <<>>
    /\ ~is_unbreakable_string(buffer)
    /\ IsDangerous(buffer)

\* frame f is about to send its history to the LLM: a turn of a loop, or an
\* attempt at a summary prompt
RequestDue(f) ==
    \/ pc[f] = "loop" /\ LoopContinues(turn_count[f], MaxTurnsOf(f))
    \/ pc[f] = "sum_call"

\* two assistant messages in a row
ConsecutiveAssistants(history) ==
    \E i \in 1..(Len(history) - 1) :
        history[i].role = "assistant" /\ history[i + 1].role = "assistant"

\* C37: every history sent to the LLM, by a turn of a loop or by an attempt
\* at a summary prompt, ends with a user message and has no two assistant
\* messages in a row.
C37_RequestEndsWithUser ==
    \A f \in Frames :
        RequestDue(f) =>
            /\ message_history[f] # <<>>
            /\ Last(message_history[f]).role = "user"
            /\ ~ConsecutiveAssistants(message_history[f])

\* C38: when the stream of an LLM call starts (nothing of its text has been
\* fed yet), the buffer of the shared interceptor is empty, whether the
\* stream of the call before ended with its final callback or was cut short.
C38_BufferEmptyAtStreamStart ==
    [][streams' = streams + 1 => buffer' = <<>>]_vars

\* C39: in every step of a sandbox and its concurrent callers the status
\* stays or moves from pending to running or from running to stopped; a
\* session is opened or kept only while the status is pending and a session
\* is closed or forgotten only while it is running; and no server has had
\* more than one session opened or more than one session closed.
C39_SandboxLifecycle ==
    [][/\ status' # status =>
             \/ status = "pending" /\ status' = "running"
             \/ status = "running" /\ status' = "stopped"
       /\ (opened' # opened \/ ~(session_by_server' \subseteq session_by_server))
             => status = "pending"
       /\ (closed' # closed \/ ~(session_by_server \subseteq session_by_server'))
             => status = "running"
       /\ \A n \in SandboxServers : opened'[n] <= 1 /\ closed'[n] <= 1
    ]_vars

\* the background task of t has been created and has not ended
BackgroundExecuting(t) == bg_pc[t] \in {"created", "executing"}

\* C40: the status get_task_status gives for a started task is
\* initializing or running only while the background task is still
\* executing, and is completed or failed once the task has finished; and
\* a status given in or after the step in which cancel_task returned
\* "cancelled" for the task is neither initializing nor running.
C40_StatusFollowsTask ==
    [][\A t \in TaskIds :
          polled'[t] # polled[t] =>
             /\ polled'[t] \in {"initializing", "running"} => BackgroundExecuting(t)
             /\ bg_pc[t] = "done" => polled'[t] \in {"completed", "failed"}
             /\ t \in cancel_replies => polled'[t] \notin {"initializing", "running"}
    ]_vars

====
